---------------------------- MODULE Spec2Model ----------------------------
(***************************************************************************)
(* Sensor_Gateway: the shared bounded buffer (sbuffer.c) and the threads   *)
(* of the gateway that use it (conmgt.c, datamgt.c, storagemgt.c, main.c). *)
(*                                                                         *)
(* The mutex and the two condition variables are modelled explicitly: a    *)
(* thread takes the mutex in one step, runs the code it executes under the *)
(* mutex in the next step (up to the unlock or the pthread_cond_wait that  *)
(* releases it), and a thread woken from a wait takes the mutex again in a *)
(* step of its own.  pthread calls are assumed not to fail.                *)
(***************************************************************************)
EXTENDS Integers, Sequences, FiniteSets, TLC

(***************************************************************************)
(* Bounds of the model.                                                    *)
(***************************************************************************)
\* SBUFFER_SIZE is a compile-time macro (15 by default); the model fixes it in
\* Init to any capacity from 1 to MaxSbufferSize.
MaxSbufferSize == 2
\* Number of sbuffer_insert calls the producer makes.
MaxInserts == 3
\* Number of sbuffer_signal_shutdown calls.
MaxShutdownCalls == 2

(***************************************************************************)
(* Threads and values.                                                     *)
(***************************************************************************)
Producers == {"conmgt"}
Consumers == {"datamgt", "storagemgt"}
Shutters  == {"main"}
Threads   == Producers \cup Consumers \cup Shutters

NoThread == "none"

\* gateway_error_t values returned by the buffer operations (common.h)
GATEWAY_SUCCESS  == "GATEWAY_SUCCESS"
SBUFFER_SHUTDOWN == "SBUFFER_SHUTDOWN"
NoRet            == "none"

\* sensor_data_t: ts is the time the frame was read, one tick per frame
NoData   == [id |-> 0, ts |-> 0]

VARIABLES
    SBUFFER_SIZE,   \* capacity of the buffer (the macro of config.h)
    buffer,         \* sbuffer_t.buffer: slot -> reading
    head,           \* sbuffer_t.head
    tail,           \* sbuffer_t.tail
    count,          \* sbuffer_t.count
    shutdown_flag,  \* sbuffer_t.shutdown_flag
    mutex,          \* sbuffer_t.mutex: the thread holding it, or NoThread
    not_full,       \* threads blocked in pthread_cond_wait(&not_full)
    not_empty,      \* threads blocked in pthread_cond_wait(&not_empty)
    pc,             \* thread -> its position inside a buffer operation
    data,           \* thread -> the *data argument of its current call
    ret,            \* thread -> the value its last buffer call returned
    inserted,       \* readings of the inserts that returned success, in order
    removed,        \* consumer -> readings its removes returned, in order
    nInsertCalls,   \* sbuffer_insert calls made so far
    nShutdownCalls, \* sbuffer_signal_shutdown calls made so far
    loc,            \* thread -> its position in its thread function
    terminate_flag, \* main.c: terminate_flag
    stop_requested, \* conmgt.c: stop_requested (and the byte in the pipe)
    db_up,          \* environment: the database accepts connects and inserts
    db_connected,   \* storagemgt_run: db_connected
    retry_count,    \* storagemgt_run: retry_count
    retry_queue,    \* storagemgt.c: retry_queue, oldest first
    processing_retry_item, \* storagemgt_run: processing_retry_item
    db_rows,        \* rows written to the table, in order
    frames,         \* valid frames read from the sensor sockets, in order
    fatal_logged,   \* a LOG_LEVEL_FATAL message was logged
    parent_signalled, \* SIGTERM was sent to getppid()
    signal_pending, \* SIGINT or SIGTERM is pending for the gateway process
    exit_status,    \* the value main returned, -1 while it runs
    sensor_list,    \* datamgt.c: sensor_list.data[0..size-1]
    alert_log,      \* alert lines logged by check_temperature_alerts
    analysed,       \* readings Analytics processed, in order
    client_sockets, \* conmgt.c: client_sockets[0..MAX_CONNECTIONS-1]
    num_clients,    \* conmgt.c: num_clients
    now,            \* time(NULL), in seconds
    open_fds,       \* descriptors of client sockets that are open
    last_event,     \* "rejected" when the last step of Ingress rejected a
                    \* connection for the limit of its IP, "timed out" when
                    \* it closed an idle connection, else "other"
    conmgt_pc,      \* conmgt_run: the position of the Ingress thread
    server_sd,      \* conmgt.c: server_sd, -1 or the listening descriptor
    shutdown_pipe_fd, \* conmgt.c: shutdown_pipe_fd, "none" for {-1, -1},
                    \* else "open" or "closed" as its descriptors are
    pipe_bytes,     \* bytes written to the shutdown pipe and not read yet
    stop_pc,        \* the position of the caller inside conmgt_stop
    stop_log,       \* per call of conmgt_stop, in order: did it close a
                    \* descriptor, did it write a byte to the pipe
    log_mutex,      \* logger.c: log_mutex, the thread holding it or NoThread
    log_pc,         \* thread -> its position inside log_message
    final_buffer,   \* thread -> final_buffer of its current log_message call
    log_calls,      \* thread -> log_message calls it has made
    fifo_fd,        \* logger.c: fifo_fd, -1 once logger_cleanup closed it
    fifo,           \* the bytes in the FIFO, oldest first
    written,        \* the records written to the FIFO, in order
    assembly_buffer, \* run_log_process: assembly_buffer[0..len-1]
    sequence_number, \* run_log_process: sequence_number
    fifo_closed,    \* run_log_process: fifo_closed
    log_file,       \* the lines of gateway.log, in order
    sink_alive,     \* the log process runs (the FIFO has a reader)
    sigpipe_ignored, \* the disposition of SIGPIPE the gateway inherited is
                    \* SIG_IGN; looked at only once the log process is dead
    fd_closes,      \* close() calls made on the descriptor of the FIFO
    boot_pc,        \* main: its position from start-up to its return
    resources,      \* what main has set up and not yet released: the FIFO
                    \* file, the forked log process, the write descriptor
    admin_pc,       \* cmdif_run: the position of the admin thread
    admin_conns,    \* the connections made to the admin socket, in order:
                    \* what the client sends, "waiting", "open" or "closed",
                    \* the responses written to it
    client_sd,      \* cmdif_run: client_sd, an index of admin_conns, or -1
    last_frame,     \* the last call of handle_client_data: the descriptor,
                    \* the line logged about the sensor id, the calls of
                    \* sbuffer_insert
    conmgt_mutex,   \* conmgt.c: conmgt_mutex, "free" or the thread holding it
    hcd_pc,         \* the position of the Ingress thread in its work on the
                    \* client table
    hcd_call,       \* the arguments of that work
    stats_row,      \* conmgt_get_connection_stats: the index i of its loop
                    \* while it holds the mutex, else -1
    retry_ring,     \* storagemgt.c: retry_queue with its items, head, tail
                    \* and count
    retry_log,      \* the levels of the lines logged by the last call of
                    \* enqueue_retry_item or dequeue_retry_item
    sleep_left,     \* interruptible_sleep: the short sleeps left until
                    \* end_time
    conn_events,    \* the db_connect calls ("ok", "fail") and the calls of
                    \* interruptible_sleep ("sleep") of the connection cycle
    main_pc,        \* main: its position from the creation of the threads on
    created,        \* the threads main created (conmgt_created and the like)
    running,        \* the created threads whose function has not returned
    main_log,       \* what main has done since sigwaitinfo or the failed
                    \* pthread_create, in order
    scan_ready,     \* the descriptors of read_fds when the pass began
    scan_handled,    \* the descriptors handle_client_data was called for in
                    \* the pass, in order
    lock_holder,    \* conmgt_mutex, the mutex of the buffer, log_mutex: the
                    \* thread that holds it
    lock_plan,      \* the lock and condition steps a thread has still to take
                    \* in the function it is in
    lock_count      \* the readings in the buffer

sbufVars == <<SBUFFER_SIZE, buffer, head, tail, count, shutdown_flag, mutex,
              not_full, not_empty>>
callVars == <<pc, data, ret>>
histVars == <<inserted, removed, nInsertCalls, nShutdownCalls>>
ctlVars == <<terminate_flag, stop_requested>>
storVars == <<db_connected, retry_count, retry_queue, processing_retry_item,
              db_rows, fatal_logged, parent_signalled>>
procVars == <<signal_pending, exit_status>>
gwVars == <<loc, terminate_flag, stop_requested, db_up, db_connected,
            retry_count, retry_queue, processing_retry_item, db_rows, frames,
            fatal_logged, parent_signalled, procVars>>
\* datamgt.c: the statistics table of Analytics and the alerts it logged
alertVars == <<sensor_list, alert_log, analysed>>
\* conmgt.c: the client table of Ingress
clientVars == <<client_sockets, num_clients, now, open_fds, last_event>>
\* conmgt.c: the life of the Ingress thread and the calls of conmgt_stop
ingVars == <<conmgt_pc, server_sd, shutdown_pipe_fd, pipe_bytes, stop_pc,
             stop_log>>
\* logger.c and log_process.c: the log calls, the FIFO and the log process
sinkVars == <<assembly_buffer, sequence_number, fifo_closed, log_file>>
deathVars == <<sink_alive, sigpipe_ignored, fd_closes>>
logVars == <<log_mutex, log_pc, final_buffer, log_calls, fifo_fd, fifo,
             written, sinkVars, deathVars>>
\* main.c: start-up and rollback
bootVars == <<boot_pc, resources>>
\* cmdif.c: the admin socket
adminVars == <<admin_pc, admin_conns, client_sd>>
\* conmgt.c: the client table as its two threads see it
tableVars == <<last_frame, conmgt_mutex, hcd_pc, hcd_call, stats_row>>
\* storagemgt.c: the retry queue as an array
ringVars == <<retry_ring, retry_log>>
\* storagemgt.c: one connection cycle of Storage and its back-off
connVars == <<sleep_left, conn_events>>
\* conmgt.c: the last pass of conmgt_run over the clients
scanVars == <<scan_ready, scan_handled>>
\* the three mutexes as the threads take them
lockVars == <<lock_holder, lock_plan, lock_count>>
extBase == <<alertVars, clientVars, ingVars, logVars, bootVars, adminVars,
             tableVars, ringVars, scanVars, lockVars>>
\* main.c: main from the creation of the threads to its return
mainVars == <<main_pc, created, running, main_log>>
extButConn == <<extBase, mainVars>>
extButMain == <<extBase, connVars>>
extVars == <<extBase, connVars, mainVars>>
\* Everything but the variables of one component.
notAlertVars == <<sbufVars, callVars, histVars, gwVars, clientVars, ingVars,
                  logVars, bootVars, adminVars, tableVars, ringVars,
                  connVars, mainVars, scanVars, lockVars>>
notClientVars == <<sbufVars, callVars, histVars, gwVars, alertVars, ingVars,
                   logVars, bootVars, adminVars, tableVars, ringVars,
                   connVars, mainVars, scanVars, lockVars>>
notLogVars == <<sbufVars, callVars, histVars, gwVars, alertVars, clientVars,
                ingVars, bootVars, adminVars, tableVars, ringVars, connVars,
                mainVars, scanVars, lockVars>>
notAdminVars == <<sbufVars, callVars, histVars, gwVars, alertVars, clientVars,
                  ingVars, logVars, bootVars, tableVars, ringVars, connVars,
                  mainVars, scanVars, lockVars>>
notTableVars == <<sbufVars, callVars, histVars, gwVars, alertVars, ingVars,
                  logVars, bootVars, adminVars, ringVars, connVars, mainVars,
                  scanVars, lockVars>>
notRingVars == <<sbufVars, callVars, histVars, gwVars, alertVars, clientVars,
                 ingVars, logVars, bootVars, adminVars, tableVars, connVars,
                 mainVars, scanVars, lockVars>>
\* Everything main's start-up leaves alone, but for terminate_flag,
\* signal_pending and exit_status
notBootVars == <<sbufVars, callVars, histVars, loc, stop_requested, db_up,
                 storVars, frames, alertVars, clientVars, ingVars, logVars,
                 adminVars, tableVars, ringVars, connVars, mainVars,
                 scanVars, lockVars>>
\* Everything Ingress and conmgt_stop leave alone.
notIngVars == <<sbufVars, callVars, histVars, loc, terminate_flag, db_up,
                storVars, frames, procVars, alertVars, logVars, bootVars,
                adminVars, tableVars, ringVars, connVars, mainVars, scanVars,
                lockVars>>
\* Everything but the three mutexes as the threads take them.
notLockVars == <<sbufVars, callVars, histVars, gwVars, alertVars, clientVars,
                 ingVars, logVars, bootVars, adminVars, tableVars, ringVars,
                 scanVars, connVars, mainVars>>
vars == <<sbufVars, callVars, histVars, gwVars, extVars>>


(***************************************************************************)
(* pthread primitives.                                                     *)
(***************************************************************************)
\* Mutant of Signalled: the signal wakes nobody.
SignalledNobody(W) == {{}}

\* pthread_cond_signal: the sets of waiters one signal may wake (one waiter,
\* any of them; nobody when nobody waits).
Signalled(W) == IF W = {} THEN {{}} ELSE {{w} : w \in W}

\* pthread_cond_broadcast: every waiter is woken.
Broadcast(W) == W

\* The position of a thread that was woken from a wait and has to take the
\* mutex again before pthread_cond_wait returns.
Woken(t) == IF t \in Producers THEN "ins_woken" ELSE "rem_woken"

\* pc after thread t left its operation (or entered position p) while the
\* threads of `woke` were woken from their waits.
PcAfter(t, p, woke) ==
    [q \in Threads |-> IF q = t THEN p
                       ELSE IF q \in woke THEN Woken(q)
                       ELSE pc[q]]

(***************************************************************************)
(* sbuffer_init                                                            *)
(***************************************************************************)
SbufferInit ==
    /\ SBUFFER_SIZE \in 1..MaxSbufferSize
    /\ buffer = [i \in 0..(SBUFFER_SIZE - 1) |-> NoData]
    /\ head = 0
    /\ tail = 0
    /\ count = 0
    /\ shutdown_flag = FALSE
    /\ mutex = NoThread
    /\ not_full = {}
    /\ not_empty = {}

\* Circular advance of head and tail.
NextIndex(i) == (i + 1) % SBUFFER_SIZE

(***************************************************************************)
(* sbuffer_insert                                                          *)
(***************************************************************************)
\* line 125: pthread_mutex_lock
InsertLock(t) ==
    /\ pc[t] = "ins_lock"
    /\ mutex = NoThread
    /\ mutex' = t
    /\ pc' = [pc EXCEPT ![t] = "ins_check"]
    /\ UNCHANGED <<SBUFFER_SIZE, buffer, head, tail, count, shutdown_flag,
                   not_full, not_empty, data, ret, histVars, gwVars, extVars>>

\* Mutant of InsertMustWait: the comparison is off by one.
InsertMustWaitOffByOne == count > SBUFFER_SIZE

\* line 137: the condition of the wait loop
InsertMustWait == count >= SBUFFER_SIZE

\* lines 137-162, run holding the mutex: wait while the buffer is full,
\* otherwise store the reading, signal not_empty, unlock and return success.
InsertWhile(t) ==
    IF InsertMustWait
    THEN /\ mutex' = NoThread
         /\ not_full' = not_full \cup {t}
         /\ pc' = [pc EXCEPT ![t] = "ins_wait"]
         /\ UNCHANGED <<SBUFFER_SIZE, buffer, head, tail, count, shutdown_flag,
                        not_empty, data, ret, histVars, gwVars, extVars>>
    ELSE /\ buffer' = [buffer EXCEPT ![head] = data[t]]
         /\ head' = NextIndex(head)
         /\ count' = count + 1
         /\ \E woke \in Signalled(not_empty) :
                /\ not_empty' = not_empty \ woke
                /\ pc' = PcAfter(t, "idle", woke)
         /\ mutex' = NoThread
         /\ ret' = [ret EXCEPT ![t] = GATEWAY_SUCCESS]
         /\ inserted' = Append(inserted, data[t])
         /\ UNCHANGED <<SBUFFER_SIZE, tail, shutdown_flag, not_full, data,
                        removed, nInsertCalls, nShutdownCalls, gwVars,
                        extVars>>

\* lines 131-134, then the loop: the shutdown check made once, before waiting
InsertCheck(t) ==
    /\ pc[t] = "ins_check"
    /\ mutex = t
    /\ IF shutdown_flag
       THEN /\ mutex' = NoThread
            /\ pc' = [pc EXCEPT ![t] = "idle"]
            /\ ret' = [ret EXCEPT ![t] = SBUFFER_SHUTDOWN]
            /\ UNCHANGED <<SBUFFER_SIZE, buffer, head, tail, count,
                           shutdown_flag, not_full, not_empty, data,
                           histVars, gwVars, extVars>>
       ELSE InsertWhile(t)

\* line 138: pthread_cond_wait takes the mutex again before it returns
InsertWake(t) ==
    /\ pc[t] = "ins_woken"
    /\ mutex = NoThread
    /\ mutex' = t
    /\ pc' = [pc EXCEPT ![t] = "ins_while"]
    /\ UNCHANGED <<SBUFFER_SIZE, buffer, head, tail, count, shutdown_flag,
                   not_full, not_empty, data, ret, histVars, gwVars, extVars>>

\* line 137 after a wake-up: the loop condition is evaluated again
InsertLoop(t) ==
    /\ pc[t] = "ins_while"
    /\ mutex = t
    /\ InsertWhile(t)

(***************************************************************************)
(* sbuffer_remove                                                          *)
(***************************************************************************)
\* line 182: pthread_mutex_lock
RemoveLock(t) ==
    /\ pc[t] = "rem_lock"
    /\ mutex = NoThread
    /\ mutex' = t
    /\ pc' = [pc EXCEPT ![t] = "rem_check"]
    /\ UNCHANGED <<SBUFFER_SIZE, buffer, head, tail, count, shutdown_flag,
                   not_full, not_empty, data, ret, histVars, gwVars, extVars>>

\* Mutant of RemoveSeesShutdown: the sentinel is returned without draining.
RemoveSeesShutdownNoDrain == shutdown_flag

\* lines 188 and 200: the condition under which remove returns the sentinel
RemoveSeesShutdown == shutdown_flag /\ count <= 0

\* Mutant of RemoveMustWait: the comparison is off by one.
RemoveMustWaitOffByOne == count < 0

\* line 194: the condition of the wait loop
RemoveMustWait == count <= 0

\* lines 188-223 and 200-223, run holding the mutex: return the sentinel on
\* shutdown with an empty buffer, wait while the buffer is empty, otherwise
\* take the reading at tail, signal not_full, unlock and return success.
RemoveBody(t) ==
    IF RemoveSeesShutdown
    THEN /\ mutex' = NoThread
         /\ pc' = [pc EXCEPT ![t] = "idle"]
         /\ ret' = [ret EXCEPT ![t] = SBUFFER_SHUTDOWN]
         /\ UNCHANGED <<SBUFFER_SIZE, buffer, head, tail, count, shutdown_flag,
                        not_full, not_empty, data, histVars, gwVars, extVars>>
    ELSE IF RemoveMustWait
    THEN /\ mutex' = NoThread
         /\ not_empty' = not_empty \cup {t}
         /\ pc' = [pc EXCEPT ![t] = "rem_wait"]
         /\ UNCHANGED <<SBUFFER_SIZE, buffer, head, tail, count, shutdown_flag,
                        not_full, data, ret, histVars, gwVars, extVars>>
    ELSE /\ data' = [data EXCEPT ![t] = buffer[tail]]
         /\ tail' = NextIndex(tail)
         /\ count' = count - 1
         /\ \E woke \in Signalled(not_full) :
                /\ not_full' = not_full \ woke
                /\ pc' = PcAfter(t, "idle", woke)
         /\ mutex' = NoThread
         /\ ret' = [ret EXCEPT ![t] = GATEWAY_SUCCESS]
         /\ removed' = [removed EXCEPT ![t] = Append(@, buffer[tail])]
         /\ UNCHANGED <<SBUFFER_SIZE, buffer, head, shutdown_flag, not_empty,
                        inserted, nInsertCalls, nShutdownCalls, gwVars,
                        extVars>>

\* lines 187-191, then the loop
RemoveCheck(t) ==
    /\ pc[t] = "rem_check"
    /\ mutex = t
    /\ RemoveBody(t)

\* line 195: pthread_cond_wait takes the mutex again before it returns
RemoveWake(t) ==
    /\ pc[t] = "rem_woken"
    /\ mutex = NoThread
    /\ mutex' = t
    /\ pc' = [pc EXCEPT ![t] = "rem_recheck"]
    /\ UNCHANGED <<SBUFFER_SIZE, buffer, head, tail, count, shutdown_flag,
                   not_full, not_empty, data, ret, histVars, gwVars, extVars>>

\* lines 200-203 after a wake-up, then the loop condition again
RemoveRecheck(t) ==
    /\ pc[t] = "rem_recheck"
    /\ mutex = t
    /\ RemoveBody(t)

(***************************************************************************)
(* sbuffer_signal_shutdown                                                 *)
(***************************************************************************)
\* line 238: pthread_mutex_lock
ShutdownLock(t) ==
    /\ pc[t] = "sd_lock"
    /\ mutex = NoThread
    /\ mutex' = t
    /\ pc' = [pc EXCEPT ![t] = "sd_set"]
    /\ UNCHANGED <<SBUFFER_SIZE, buffer, head, tail, count, shutdown_flag,
                   not_full, not_empty, data, ret, histVars, gwVars, extVars>>

\* Mutant of ShutdownFlagSet: the flag is toggled.
ShutdownFlagToggle == ~shutdown_flag

\* line 243: the value the flag is set to
ShutdownFlagSet == TRUE

\* lines 243-252: set the flag, broadcast on both condition variables, unlock
ShutdownSet(t) ==
    /\ pc[t] = "sd_set"
    /\ mutex = t
    /\ shutdown_flag' = ShutdownFlagSet
    /\ not_empty' = not_empty \ Broadcast(not_empty)
    /\ not_full' = not_full \ Broadcast(not_full)
    /\ pc' = PcAfter(t, "idle", Broadcast(not_empty) \cup Broadcast(not_full))
    /\ mutex' = NoThread
    /\ UNCHANGED <<SBUFFER_SIZE, buffer, head, tail, count, data, ret,
                   histVars, gwVars, extVars>>

(***************************************************************************)
(* A spurious wake-up of a thread blocked in pthread_cond_wait.            *)
(***************************************************************************)
SpuriousWakeup(t) ==
    /\ t \in not_full \cup not_empty
    /\ not_full' = not_full \ {t}
    /\ not_empty' = not_empty \ {t}
    /\ pc' = [pc EXCEPT ![t] = Woken(t)]
    /\ UNCHANGED <<SBUFFER_SIZE, buffer, head, tail, count, shutdown_flag,
                   mutex, data, ret, histVars, gwVars, extVars>>

(***************************************************************************)
(* Clients of the buffer: a producer, consumers and a thread that signals  *)
(* shutdown call the three operations at any time, in any order.  The      *)
(* buffer never looks into a reading, so the k-th call inserts the reading *)
(* of sensor 1 taken at time k: the readings are told apart by ts.         *)
(***************************************************************************)
InsertCall(t) ==
    /\ t \in Producers
    /\ pc[t] = "idle"
    /\ nInsertCalls < MaxInserts
    /\ data' = [data EXCEPT ![t] = [id |-> 1, ts |-> nInsertCalls + 1]]
    /\ nInsertCalls' = nInsertCalls + 1
    /\ pc' = [pc EXCEPT ![t] = "ins_lock"]
    /\ ret' = [ret EXCEPT ![t] = NoRet]
    /\ UNCHANGED <<sbufVars, inserted, removed, nShutdownCalls, gwVars, extVars>>

RemoveCall(t) ==
    /\ t \in Consumers
    /\ pc[t] = "idle"
    /\ pc' = [pc EXCEPT ![t] = "rem_lock"]
    /\ ret' = [ret EXCEPT ![t] = NoRet]
    /\ UNCHANGED <<sbufVars, data, histVars, gwVars, extVars>>

ShutdownCall(t) ==
    /\ t \in Shutters
    /\ pc[t] = "idle"
    /\ nShutdownCalls < MaxShutdownCalls
    /\ nShutdownCalls' = nShutdownCalls + 1
    /\ pc' = [pc EXCEPT ![t] = "sd_lock"]
    /\ UNCHANGED <<sbufVars, data, ret, inserted, removed, nInsertCalls, gwVars,
                   extVars>>

ClientInit(active) ==
    /\ pc = [t \in Threads |-> IF t \in active THEN "idle" ELSE "off"]
    /\ data = [t \in Threads |-> NoData]
    /\ ret = [t \in Threads |-> NoRet]
    /\ inserted = <<>>
    /\ removed = [c \in Consumers |-> <<>>]
    /\ nInsertCalls = 0
    /\ nShutdownCalls = 0

(***************************************************************************)
(* Analytics (datamgt.c): the per-sensor statistics and the alerts.        *)
(* Values are whole degrees; sum / count is compared with a threshold by   *)
(* comparing sum with threshold * count, which is what the division in     *)
(* doubles decides for values of this size.  Allocation does not fail.     *)
(***************************************************************************)
\* Number of readings Analytics takes.
MaxReadings == 3

\* config.h
TEMP_TOO_HOT_THRESHOLD == 30
TEMP_TOO_COLD_THRESHOLD == 15
\* datamgt.c
INVALID_SENSOR_ID == 0

TEMP_STATE_NORMAL == "NORMAL"
TEMP_STATE_TOO_COLD == "TOO_COLD"
TEMP_STATE_TOO_HOT == "TOO_HOT"

\* Sensor ids and values of the readings Analytics is given.
AlertSensorIds == {0, 1, 2}
AlertValues == {-100, 10, 14, 15, 30, 31, 35, 36, 100}

AlertsInit ==
    /\ sensor_list = <<>>
    /\ alert_log = <<>>
    /\ analysed = <<>>

\* Mutant of FindSensor: the first entry is taken for every id.
FindFirst(list, id) ==
    IF list # <<>> THEN 1 ELSE 0

\* find_or_create_sensor, lines 199-203: the index of the entry of id, or 0
FindSensor(list, id) ==
    IF \E i \in 1..Len(list) : list[i].id = id
    THEN CHOOSE i \in 1..Len(list) :
             /\ list[i].id = id
             /\ \A j \in 1..(i - 1) : list[j].id # id
    ELSE 0

\* find_or_create_sensor, lines 197-228: the list with an entry for id
find_or_create_sensor(list, id) ==
    IF FindSensor(list, id) # 0
    THEN list
    ELSE Append(list, [id |-> id, total_value_sum |-> 0, reading_count |-> 0,
                       last_logged_state |-> TEMP_STATE_NORMAL])

\* update_sensor_stats, lines 233-237
update_sensor_stats(stats, value) ==
    [stats EXCEPT !.total_value_sum = @ + value, !.reading_count = @ + 1]

\* Mutant of CurrentState: an average equal to a threshold is beyond it.
CurrentStateInclusive(stats) ==
    IF stats.total_value_sum <= TEMP_TOO_COLD_THRESHOLD * stats.reading_count
    THEN TEMP_STATE_TOO_COLD
    ELSE IF stats.total_value_sum
                >= TEMP_TOO_HOT_THRESHOLD * stats.reading_count
    THEN TEMP_STATE_TOO_HOT
    ELSE TEMP_STATE_NORMAL

\* check_temperature_alerts, lines 259-263: the state of the running average
CurrentState(stats) ==
    IF stats.total_value_sum < TEMP_TOO_COLD_THRESHOLD * stats.reading_count
    THEN TEMP_STATE_TOO_COLD
    ELSE IF stats.total_value_sum
                > TEMP_TOO_HOT_THRESHOLD * stats.reading_count
    THEN TEMP_STATE_TOO_HOT
    ELSE TEMP_STATE_NORMAL

\* Mutant of StateChanged: a line is logged for every reading.
StateChangedAlways(current_state, last_logged_state) == TRUE

\* check_temperature_alerts, line 266
StateChanged(current_state, last_logged_state) ==
    current_state # last_logged_state

\* check_temperature_alerts, lines 270-287: the level of the line per state
AlertLevel(state) ==
    IF state = TEMP_STATE_NORMAL THEN "INFO" ELSE "WARNING"

\* datamgt_run, lines 117-134, for one reading taken from the buffer: a
\* reading of sensor 0 is dropped; otherwise the entry of the sensor is found
\* or created, updated, and check_temperature_alerts logs a line when the
\* state of the running average is not the last logged state.
DatamgtProcess(id, value) ==
    /\ Len(analysed) < MaxReadings
    /\ analysed' = Append(analysed, [id |-> id, value |-> value])
    /\ IF id = INVALID_SENSOR_ID
       THEN UNCHANGED <<sensor_list, alert_log>>
       ELSE LET list == find_or_create_sensor(sensor_list, id)
                i == FindSensor(list, id)
                stats == update_sensor_stats(list[i], value)
                current_state == CurrentState(stats)
            IN  IF StateChanged(current_state, stats.last_logged_state)
                THEN /\ alert_log' =
                            Append(alert_log,
                                   [id |-> id,
                                    level |-> AlertLevel(current_state),
                                    state |-> current_state])
                     /\ sensor_list' =
                            [list EXCEPT ![i] =
                                [stats EXCEPT
                                    !.last_logged_state = current_state]]
                ELSE /\ sensor_list' = [list EXCEPT ![i] = stats]
                     /\ UNCHANGED alert_log
    /\ UNCHANGED notAlertVars

NextAlerts ==
    \E id \in AlertSensorIds : \E value \in AlertValues :
        DatamgtProcess(id, value)

(***************************************************************************)
(* Ingress (conmgt.c): the client table.  Only the Ingress thread changes  *)
(* it.  A connection is known by its descriptor; accept returns the lowest *)
(* descriptor that is not open.  The fields of client_info_t that are only *)
(* printed (client_port, connection_start_ts) are left out.                *)
(***************************************************************************)
\* MAX_CONNECTIONS of conmgt.c (100), scaled down.
MaxConnections == 3
\* MAX_CONNECTIONS_PER_IP of config.h (5), scaled down.
MaxPerIp == 2
\* SENSOR_TIMEOUT_SEC of config.h (5), scaled down.
MaxIdle == 1
\* The clock runs from 0 to MaxIdle + 1.
MaxTime == MaxIdle + 1

MAX_CONNECTIONS == MaxConnections
MAX_CONNECTIONS_PER_IP == MaxPerIp
SENSOR_TIMEOUT_SEC == MaxIdle

PeerIps == {"10.0.0.1", "10.0.0.2"}
Slots == 0..(MAX_CONNECTIONS - 1)
Fds == 1..(MAX_CONNECTIONS + 1)

\* client_info_t of a slot that was never used
FreeSlot == [socket_fd |-> -1, client_ip |-> "", last_active_ts |-> 0,
             id_received |-> FALSE, sensor_id |-> 0]

\* conmgt_run, lines 57-63, and the zeroed static array
ClientsInit ==
    /\ client_sockets = [i \in Slots |-> FreeSlot]
    /\ num_clients = 0
    /\ now = 0
    /\ open_fds = {}
    /\ last_event = "other"

\* handle_new_connection, lines 327-335: the records counted for an IP
ConnectionsFromIp(cs, ip) ==
    Cardinality({i \in Slots : /\ cs[i].socket_fd # -1
                               /\ cs[i].client_ip # ""
                               /\ cs[i].client_ip = ip})

\* Mutant of LimitReached: the comparison is off by one.
LimitReachedOffByOne(n) == n > MAX_CONNECTIONS_PER_IP

\* handle_new_connection, line 337
LimitReached(n) == n >= MAX_CONNECTIONS_PER_IP

\* add_client, lines 490-520: the table and count after adding descriptor
\* fd of peer ip, and whether the descriptor was kept.
add_client(cs, n, fd, ip) ==
    IF n >= MAX_CONNECTIONS \/ \A i \in Slots : cs[i].socket_fd # -1
    THEN [cs |-> cs, n |-> n, kept |-> FALSE]
    ELSE LET i == CHOOSE k \in Slots :
                      /\ cs[k].socket_fd = -1
                      /\ \A j \in 0..(k - 1) : cs[j].socket_fd # -1
         IN  [cs |-> [cs EXCEPT ![i] = [socket_fd |-> fd,
                                        client_ip |-> ip,
                                        last_active_ts |-> now,
                                        id_received |-> FALSE,
                                        sensor_id |-> 0]],
              n |-> n + 1, kept |-> TRUE]

\* The slot as remove_client leaves it (lines 547-550, 559-562).
Cleared(c) == [c EXCEPT !.socket_fd = -1, !.client_ip = "",
                         !.id_received = FALSE, !.sensor_id = 0]

\* remove_client, lines 528-569: the table, the count and the descriptors
\* closed after removing the record at client_index, with the compaction.
remove_client(st, client_index) ==
    IF client_index < 0 \/ client_index >= MAX_CONNECTIONS
           \/ st.cs[client_index].socket_fd = -1
    THEN st
    ELSE LET cs1 == [st.cs EXCEPT ![client_index] = Cleared(@)]
             valid == {j \in 0..(st.n - 1) : cs1[j].socket_fd # -1}
             last_valid_index ==
                 IF valid = {} THEN -1
                 ELSE CHOOSE j \in valid : \A k \in valid : k <= j
             cs2 == IF last_valid_index # -1
                          /\ client_index < last_valid_index
                    THEN [cs1 EXCEPT
                             ![client_index] = cs1[last_valid_index],
                             ![last_valid_index] = Cleared(@)]
                    ELSE cs1
         IN  [cs |-> cs2, n |-> st.n - 1,
              closed |-> st.closed \cup {st.cs[client_index].socket_fd}]

\* Mutant of TimedOut: a record idle for exactly the timeout is closed.
TimedOutAtLimit(c, t) == (t - c.last_active_ts) >= SENSOR_TIMEOUT_SEC

\* check_sensor_timeouts, line 470
TimedOut(c, t) == (t - c.last_active_ts) > SENSOR_TIMEOUT_SEC

RECURSIVE TimeoutScan(_, _)
\* check_sensor_timeouts, lines 468-480: the loop from index i down to 0
TimeoutScan(st, i) ==
    IF i < 0 THEN st
    ELSE IF st.cs[i].socket_fd # -1 /\ TimedOut(st.cs[i], now)
    THEN TimeoutScan(remove_client(st, i), i - 1)
    ELSE TimeoutScan(st, i - 1)

\* handle_new_connection, lines 305-358: accept a connection of peer ip;
\* reject and close it when the IP has reached its limit, else add_client.
handle_new_connection(ip) ==
    LET fd == CHOOSE f \in Fds : f \notin open_fds
                                 /\ \A g \in Fds \ open_fds : f <= g
        added == add_client(client_sockets, num_clients, fd, ip)
    IN  IF LimitReached(ConnectionsFromIp(client_sockets, ip))
        THEN /\ last_event' = "rejected"
             /\ UNCHANGED <<client_sockets, num_clients, open_fds>>
        ELSE /\ client_sockets' = added.cs
             /\ num_clients' = added.n
             /\ open_fds' = IF added.kept THEN open_fds \cup {fd}
                            ELSE open_fds
             /\ last_event' = "other"

\* conmgt_run, lines 156-158: the listening socket is readable
Accept(ip) ==
    /\ handle_new_connection(ip)
    /\ UNCHANGED <<now, notClientVars>>

\* handle_client_data, lines 407-419: a frame arrived on the record at i,
\* as far as the limits and the timeout see it; HandleClientData follows
\* the sensor id as well.
ClientData(i) ==
    /\ i < num_clients
    /\ client_sockets[i].socket_fd # -1
    /\ client_sockets' = [client_sockets EXCEPT ![i].last_active_ts = now]
    /\ last_event' = "other"
    /\ UNCHANGED <<num_clients, now, open_fds, notClientVars>>

\* handle_client_data, lines 378-405 and 442-455: the peer closed, the read
\* failed or was short; the record at i is removed.
ClientClose(i) ==
    /\ i < num_clients
    /\ client_sockets[i].socket_fd # -1
    /\ LET st == remove_client([cs |-> client_sockets, n |-> num_clients,
                                closed |-> {}], i)
       IN  /\ client_sockets' = st.cs
           /\ num_clients' = st.n
           /\ open_fds' = open_fds \ st.closed
    /\ last_event' = "other"
    /\ UNCHANGED <<now, notClientVars>>

\* conmgt_run, lines 168-171: check_sensor_timeouts at the end of a pass
CheckTimeouts ==
    /\ LET st == TimeoutScan([cs |-> client_sockets, n |-> num_clients,
                              closed |-> {}], num_clients - 1)
       IN  /\ client_sockets' = st.cs
           /\ num_clients' = st.n
           /\ open_fds' = open_fds \ st.closed
           /\ last_event' = IF st.closed # {} THEN "timed out" ELSE "other"
    /\ UNCHANGED <<now, notClientVars>>

\* A second passes.
Tick ==
    /\ now < MaxTime
    /\ now' = now + 1
    /\ UNCHANGED <<client_sockets, num_clients, open_fds, last_event,
                   notClientVars>>

ScanInit ==
    /\ scan_ready = {}
    /\ scan_handled = <<>>

\* handle_client_data as the pass over the clients sees it: the record at i
\* is removed when its peer closed or its read failed or was short
\* (closing), else its last activity is now.
HandleAt(st, i, closing) ==
    LET fd == st.cs[i].socket_fd
        st1 == IF fd \in closing
               THEN remove_client([cs |-> st.cs, n |-> st.n,
                                   closed |-> st.closed], i)
               ELSE [cs |-> [st.cs EXCEPT ![i].last_active_ts = now],
                     n |-> st.n, closed |-> st.closed]
    IN  [cs |-> st1.cs, n |-> st1.n, closed |-> st1.closed,
         handled |-> Append(st.handled, fd)]

\* A pass from index 0 upwards, num_clients read anew at every step.
RECURSIVE ForwardScan(_, _, _, _)
ForwardScan(st, i, ready, closing) ==
    IF i >= st.n THEN st
    ELSE IF st.cs[i].socket_fd # -1 /\ st.cs[i].socket_fd \in ready
    THEN ForwardScan(HandleAt(st, i, closing), i + 1, ready, closing)
    ELSE ForwardScan(st, i + 1, ready, closing)

\* Mutant of ClientScan: the pass runs from index 0 upwards.
ClientScanForward(st, i, ready, closing) ==
    ForwardScan(st, 0, ready, closing)

\* conmgt_run, lines 161-166: the loop over the clients from index i down
\* to 0; handle_client_data is called for a live record whose descriptor
\* is in read_fds.
RECURSIVE ClientScan(_, _, _, _)
ClientScan(st, i, ready, closing) ==
    IF i < 0 THEN st
    ELSE IF st.cs[i].socket_fd # -1 /\ st.cs[i].socket_fd \in ready
    THEN ClientScan(HandleAt(st, i, closing), i - 1, ready, closing)
    ELSE ClientScan(st, i - 1, ready, closing)

\* conmgt_run, lines 161-166: one pass over the clients after select
\* returned with the descriptors `ready` readable, those of `closing` with
\* the end of their stream.
ClientPass(ready, closing) ==
    /\ ready # {}
    /\ LET st == ClientScan([cs |-> client_sockets, n |-> num_clients,
                             closed |-> {}, handled |-> <<>>],
                            num_clients - 1, ready, closing)
       IN  /\ client_sockets' = st.cs
           /\ num_clients' = st.n
           /\ open_fds' = open_fds \ st.closed
           /\ scan_handled' = st.handled
    /\ scan_ready' = ready
    /\ last_event' = "other"
    /\ UNCHANGED <<now, sbufVars, callVars, histVars, gwVars, alertVars,
                   ingVars, logVars, bootVars, adminVars, tableVars, ringVars,
                   connVars, mainVars, lockVars>>

\* The client table under accepts and passes over the clients.
NextScan ==
    \/ \E ip \in PeerIps : Accept(ip)
    \/ \E ready \in SUBSET open_fds :
          \E closing \in SUBSET ready : ClientPass(ready, closing)

NextClients ==
    \/ \E ip \in PeerIps : Accept(ip)
    \/ \E i \in Slots : ClientData(i) \/ ClientClose(i)
    \/ CheckTimeouts
    \/ Tick

(***************************************************************************)
(* Ingress (conmgt.c): handle_client_data with the sensor id of the        *)
(* record, the lines it logs about it and its calls of sbuffer_insert.     *)
(***************************************************************************)
\* EXPECTED_PACKET_SIZE of conmgt.c: sizeof(uint16_t) + sizeof(double)
EXPECTED_PACKET_SIZE == 10
\* what read(client_sd, recv_buffer, EXPECTED_PACKET_SIZE) returns: an error,
\* the end of the stream, a part of a frame, a frame
ReadSizes == {-1, 0, 1, EXPECTED_PACKET_SIZE - 1, EXPECTED_PACKET_SIZE}
\* the sensor ids that frames carry
FrameIds == {1, 2}

\* handle_client_data was not called yet
NoFrame == [fd |-> -1, bytes |-> 0, log |-> "none", inserts |-> 0]
\* Ingress is not at work on the table
NoCall == [op |-> "none", i |-> -1, id |-> 0, ip |-> ""]

\* the zeroed statics of conmgt.c; nobody holds the mutex
TableInit ==
    /\ last_frame = NoFrame
    /\ conmgt_mutex = "free"
    /\ hcd_pc = "idle"
    /\ hcd_call = NoCall
    /\ stats_row = -1

\* Mutant of FullFrame: any read that returned bytes is taken as a frame.
FullFrameOrPart(bytes_received) == bytes_received > 0

\* handle_client_data, line 407
FullFrame(bytes_received) == bytes_received = EXPECTED_PACKET_SIZE

\* Mutant of FrameLog: the line is logged for every frame.
FrameLogAlways(c, id) == "opened"

\* handle_client_data, lines 421-430: the line logged about the sensor id of
\* a frame that arrived on record c
FrameLog(c, id) ==
    IF ~c.id_received THEN "opened"
    ELSE IF c.sensor_id # id THEN "id changed"
    ELSE "none"

\* handle_client_data, lines 367-456: read returned bytes_received on the
\* record at client_index; id is the sensor id of the frame if it was one.
handle_client_data(client_index, bytes_received, id) ==
    LET c == client_sockets[client_index]
    IN  IF FullFrame(bytes_received)
        THEN /\ last_frame' = [fd |-> c.socket_fd, bytes |-> bytes_received,
                               log |-> FrameLog(c, id), inserts |-> 1]
             /\ client_sockets' =
                    [client_sockets EXCEPT ![client_index] =
                        [c EXCEPT !.last_active_ts = now,
                                  !.sensor_id = id,
                                  !.id_received = TRUE]]
             /\ UNCHANGED <<num_clients, open_fds>>
        ELSE LET st == remove_client([cs |-> client_sockets,
                                      n |-> num_clients, closed |-> {}],
                                     client_index)
             IN  /\ last_frame' = [fd |-> c.socket_fd,
                                   bytes |-> bytes_received,
                                   log |-> "closing", inserts |-> 0]
                 /\ client_sockets' = st.cs
                 /\ num_clients' = st.n
                 /\ open_fds' = open_fds \ st.closed

\* conmgt_run, lines 161-166: the socket of the record at i is readable
HandleClientData(i, bytes_received, id) ==
    /\ i < num_clients
    /\ client_sockets[i].socket_fd # -1
    /\ handle_client_data(i, bytes_received, id)
    /\ last_event' = "other"
    /\ UNCHANGED <<now, conmgt_mutex, hcd_pc, hcd_call, stats_row,
                   notTableVars>>

NextRecords ==
    \/ \E ip \in PeerIps : Accept(ip)
    \/ \E i \in Slots : \E bytes_received \in ReadSizes : \E id \in FrameIds :
           HandleClientData(i, bytes_received, id)

(***************************************************************************)
(* Ingress (conmgt.c): the writes of the Ingress thread to the client      *)
(* table one by one, next to a call of conmgt_get_connection_stats by the  *)
(* admin thread.                                                           *)
(***************************************************************************)
\* handle_new_connection, line 350, and handle_client_data, lines 390, 402
\* and 452: pthread_mutex_lock before add_client or remove_client
TableLock(op, i, ip) ==
    /\ hcd_pc = "idle"
    /\ conmgt_mutex = "free"
    /\ op = "remove" => (i < num_clients /\ client_sockets[i].socket_fd # -1)
    /\ conmgt_mutex' = "conmgt"
    /\ hcd_pc' = "locked"
    /\ hcd_call' = [op |-> op, i |-> i, id |-> 0, ip |-> ip]
    /\ UNCHANGED <<last_frame, stats_row, clientVars, notTableVars>>

\* handle_new_connection, lines 351-352, and handle_client_data, lines
\* 391-392, 403-404 and 453-454: the call and pthread_mutex_unlock
TableUnlock ==
    /\ hcd_pc = "locked"
    /\ IF hcd_call.op = "add"
       THEN handle_new_connection(hcd_call.ip)
       ELSE LET st == remove_client([cs |-> client_sockets,
                                     n |-> num_clients, closed |-> {}],
                                    hcd_call.i)
            IN  /\ client_sockets' = st.cs
                /\ num_clients' = st.n
                /\ open_fds' = open_fds \ st.closed
                /\ last_event' = "other"
    /\ conmgt_mutex' = "free"
    /\ hcd_pc' = "idle"
    /\ hcd_call' = NoCall
    /\ UNCHANGED <<last_frame, stats_row, now, notTableVars>>

\* handle_client_data, line 419: a frame of sensor id arrived on the record
\* at i; last_active_ts is written
FrameTimestamp(i, id) ==
    /\ hcd_pc = "idle"
    /\ i < num_clients
    /\ client_sockets[i].socket_fd # -1
    /\ client_sockets' = [client_sockets EXCEPT ![i].last_active_ts = now]
    /\ hcd_pc' = IF ~client_sockets[i].id_received THEN "sensor_id"
                 ELSE IF client_sockets[i].sensor_id # id THEN "update_id"
                 ELSE "idle"
    /\ hcd_call' = IF hcd_pc' = "idle" THEN NoCall
                   ELSE [op |-> "frame", i |-> i, id |-> id, ip |-> ""]
    /\ UNCHANGED <<last_frame, conmgt_mutex, stats_row, num_clients, now,
                   open_fds, last_event, notTableVars>>

\* handle_client_data, lines 422 and 429: sensor_id is written
FrameSensorId ==
    /\ hcd_pc \in {"sensor_id", "update_id"}
    /\ client_sockets' =
           [client_sockets EXCEPT ![hcd_call.i].sensor_id = hcd_call.id]
    /\ hcd_pc' = IF hcd_pc = "sensor_id" THEN "id_received" ELSE "idle"
    /\ hcd_call' = IF hcd_pc' = "idle" THEN NoCall ELSE hcd_call
    /\ UNCHANGED <<last_frame, conmgt_mutex, stats_row, num_clients, now,
                   open_fds, last_event, notTableVars>>

\* handle_client_data, line 423: id_received is written
FrameIdReceived ==
    /\ hcd_pc = "id_received"
    /\ client_sockets' =
           [client_sockets EXCEPT ![hcd_call.i].id_received = TRUE]
    /\ hcd_pc' = "idle"
    /\ hcd_call' = NoCall
    /\ UNCHANGED <<last_frame, conmgt_mutex, stats_row, num_clients, now,
                   open_fds, last_event, notTableVars>>

\* conmgt_get_connection_stats, lines 588-594: pthread_mutex_lock
StatsLock ==
    /\ stats_row = -1
    /\ conmgt_mutex = "free"
    /\ conmgt_mutex' = "cmdif"
    /\ stats_row' = 0
    /\ UNCHANGED <<last_frame, hcd_pc, hcd_call, clientVars, notTableVars>>

\* conmgt_get_connection_stats, lines 594-616: client_sockets[i] is read
StatsRow ==
    /\ stats_row \in Slots
    /\ stats_row' = stats_row + 1
    /\ UNCHANGED <<last_frame, conmgt_mutex, hcd_pc, hcd_call, clientVars,
                   notTableVars>>

\* conmgt_get_connection_stats, lines 618-625: pthread_mutex_unlock
StatsUnlock ==
    /\ stats_row = MAX_CONNECTIONS
    /\ conmgt_mutex' = "free"
    /\ stats_row' = -1
    /\ UNCHANGED <<last_frame, hcd_pc, hcd_call, clientVars, notTableVars>>

NextTable ==
    \/ \E ip \in PeerIps : TableLock("add", -1, ip)
    \/ \E i \in Slots : TableLock("remove", i, "")
    \/ TableUnlock
    \/ \E i \in Slots : \E id \in FrameIds : FrameTimestamp(i, id)
    \/ FrameSensorId
    \/ FrameIdReceived
    \/ StatsLock
    \/ StatsRow
    \/ StatsUnlock

(***************************************************************************)
(* Ingress (conmgt.c): the thread function from its first statement to its *)
(* return, and conmgt_stop called from another thread at any time.  The    *)
(* statics server_sd, shutdown_pipe_fd and stop_requested are read and     *)
(* written by both without a lock; every read or write of one of them is a *)
(* step.  pipe(), socket(), bind() and listen() succeed unless the         *)
(* descriptor they are given was closed.  The listening socket is          *)
(* descriptor 0 in open_fds.                                               *)
(***************************************************************************)
\* conmgt_stop calls made by the callers of the model
MaxStopCalls == 2

\* the statics of conmgt.c, lines 29-33, in a thread that was just created
IngressInit ==
    /\ conmgt_pc = "start"
    /\ server_sd = -1
    /\ shutdown_pipe_fd = "none"
    /\ pipe_bytes = 0
    /\ stop_pc = "idle"
    /\ stop_log = <<>>

\* conmgt_run, lines 57-63: stop_requested is reset, the table is cleared
ConmgtStart ==
    /\ conmgt_pc = "start"
    /\ stop_requested' = FALSE
    /\ conmgt_pc' = "pipe"
    /\ UNCHANGED <<server_sd, shutdown_pipe_fd, pipe_bytes, stop_pc, stop_log,
                   clientVars, notIngVars>>

\* conmgt_run, lines 66-70: pipe(shutdown_pipe_fd)
ConmgtPipe ==
    /\ conmgt_pc = "pipe"
    /\ shutdown_pipe_fd' = "open"
    /\ conmgt_pc' = "socket"
    /\ UNCHANGED <<server_sd, pipe_bytes, stop_pc, stop_log, stop_requested,
                   clientVars, notIngVars>>

\* setup_server_socket, line 266: server_sd = socket(...)
ConmgtSocket ==
    /\ conmgt_pc = "socket"
    /\ server_sd' = 0
    /\ open_fds' = open_fds \cup {0}
    /\ conmgt_pc' = "listen"
    /\ UNCHANGED <<shutdown_pipe_fd, pipe_bytes, stop_pc, stop_log,
                   stop_requested, client_sockets, num_clients, now,
                   last_event, notIngVars>>

\* setup_server_socket, lines 271-295, and conmgt_run, lines 73-79:
\* setsockopt, bind and listen fail on server_sd = -1, and bind fails when
\* the port cannot be bound (bind_ok is false); setup_server_socket then
\* closes server_sd, and the thread closes both ends of the pipe (the array
\* keeps their numbers), logs at FATAL level and returns.
ConmgtListen(bind_ok) ==
    /\ conmgt_pc = "listen"
    /\ IF server_sd = -1 \/ ~bind_ok
       THEN /\ shutdown_pipe_fd' = "closed"
            /\ server_sd' = -1
            /\ open_fds' = open_fds \ {server_sd}
            /\ conmgt_pc' = "returned"
       ELSE /\ conmgt_pc' = "loop"
            /\ UNCHANGED <<shutdown_pipe_fd, server_sd, open_fds>>
    /\ UNCHANGED <<pipe_bytes, stop_pc, stop_log, stop_requested,
                   client_sockets, num_clients, now, last_event, notIngVars>>

\* conmgt_run, lines 147-153 and 98: the pipe is readable; the byte is read,
\* running becomes false and the loop ends.
ConmgtPipeReadable ==
    /\ conmgt_pc = "loop"
    /\ pipe_bytes > 0
    /\ pipe_bytes' = pipe_bytes - 1
    /\ conmgt_pc' = "cleanup"
    /\ UNCHANGED <<server_sd, shutdown_pipe_fd, stop_pc, stop_log,
                   stop_requested, clientVars, notIngVars>>

\* conmgt_run, lines 176-209: the listening socket is closed if server_sd
\* is a descriptor, every slot with a descriptor is closed, num_clients is
\* zeroed, the pipe is closed and forgotten.
ConmgtCleanup ==
    /\ conmgt_pc = "cleanup"
    /\ server_sd' = -1
    /\ client_sockets' = [i \in Slots |->
                             [client_sockets[i] EXCEPT !.socket_fd = -1]]
    /\ num_clients' = 0
    /\ open_fds' = (open_fds \ {server_sd})
                       \ {client_sockets[i].socket_fd : i \in Slots}
    /\ shutdown_pipe_fd' = "none"
    /\ pipe_bytes' = 0
    /\ conmgt_pc' = "returned"
    /\ UNCHANGED <<stop_pc, stop_log, stop_requested, now, last_event,
                   notIngVars>>

\* The steps of conmgt_run outside the work on the client table
ConmgtThread ==
    \/ ConmgtStart
    \/ ConmgtPipe
    \/ ConmgtSocket
    \/ \E bind_ok \in BOOLEAN : ConmgtListen(bind_ok)
    \/ ConmgtPipeReadable
    \/ ConmgtCleanup

\* conmgt_run, lines 156-171: one piece of work of a pass of the loop.  The
\* listening socket is looked at only while server_sd is a descriptor.
ConmgtPass ==
    /\ conmgt_pc = "loop"
    /\ \/ \E ip \in PeerIps : server_sd # -1 /\ Accept(ip)
       \/ \E i \in Slots : ClientData(i) \/ ClientClose(i)
       \/ CheckTimeouts

\* conmgt_stop, line 218: __sync_bool_compare_and_swap(&stop_requested,
\* false, true) succeeds
StopFirst ==
    ~stop_requested

\* conmgt_stop, lines 216-220 and 247-249: a call at any time; only the call
\* whose compare-and-swap succeeds goes on.
StopCall ==
    /\ stop_pc = "idle"
    /\ Len(stop_log) < MaxStopCalls
    /\ stop_log' = Append(stop_log, [closed |-> FALSE, wrote |-> FALSE])
    /\ IF StopFirst
       THEN /\ stop_requested' = TRUE
            /\ stop_pc' = "close"
       ELSE UNCHANGED <<stop_requested, stop_pc>>
    /\ UNCHANGED <<conmgt_pc, server_sd, shutdown_pipe_fd, pipe_bytes,
                   clientVars, notIngVars>>

\* conmgt_stop, lines 223-232: close(server_sd) if it is a descriptor
StopClose ==
    /\ stop_pc = "close"
    /\ IF server_sd # -1
       THEN /\ open_fds' = open_fds \ {server_sd}
            /\ server_sd' = -1
            /\ stop_log' = [stop_log EXCEPT ![Len(stop_log)].closed = TRUE]
       ELSE UNCHANGED <<open_fds, server_sd, stop_log>>
    /\ stop_pc' = "write"
    /\ UNCHANGED <<conmgt_pc, shutdown_pipe_fd, pipe_bytes, stop_requested,
                   client_sockets, num_clients, now, last_event, notIngVars>>

\* conmgt_stop, lines 235-246: one byte is written if shutdown_pipe_fd[1] is
\* not -1; the write fails on a descriptor that was closed.
StopWrite ==
    /\ stop_pc = "write"
    /\ IF shutdown_pipe_fd = "open"
       THEN /\ pipe_bytes' = pipe_bytes + 1
            /\ stop_log' = [stop_log EXCEPT ![Len(stop_log)].wrote = TRUE]
       ELSE UNCHANGED <<pipe_bytes, stop_log>>
    /\ stop_pc' = "idle"
    /\ UNCHANGED <<conmgt_pc, server_sd, shutdown_pipe_fd, stop_requested,
                   clientVars, notIngVars>>

\* A call of conmgt_stop that has begun goes on.
StopStep ==
    \/ StopClose
    \/ StopWrite

NextIngress ==
    \/ ConmgtThread
    \/ ConmgtPass
    \/ StopCall
    \/ StopStep
    \/ Tick

(***************************************************************************)
(* Logging (logger.c, log_process.c).  A byte of the FIFO is a record      *)
(* [c, of]: c is the character, "\n" or "x" for any other, and `of` names  *)
(* the log call that produced it (thread, number of the call).  A write of *)
(* at most PIPE_BUF bytes to the FIFO is atomic; the FIFO holds whatever   *)
(* was written.  The records of the gateway are shorter than one read of   *)
(* the log process (FIFO_READ_BUFFER_SIZE) and contain no newline but the  *)
(* final one.                                                              *)
(***************************************************************************)
\* FIFO_READ_BUFFER_SIZE of log_process.c (512), scaled down.
MaxRead == 3
\* log_message calls of one thread
MaxLogCalls == 2

FIFO_READ_BUFFER_SIZE == MaxRead
ASSEMBLY_BUFFER_SIZE == FIFO_READ_BUFFER_SIZE * 4
\* Lengths of a record, the newline included
RecordLens == 2..FIFO_READ_BUFFER_SIZE
LogThreads == {"conmgt", "datamgt"}

\* log_message, lines 134-137: "<time> <level><message>\n" of call n of t
Record(t, n, len) ==
    [i \in 1..len |-> [c |-> IF i = len THEN "\n" ELSE "x", of |-> <<t, n>>]]

\* main.c:139-160 and run_log_process, lines 57-80: the FIFO is open at both
\* ends, the log process has written its first line.
LoggerInit ==
    /\ log_mutex = NoThread
    /\ log_pc = [t \in LogThreads |-> "idle"]
    /\ final_buffer = [t \in LogThreads |-> <<>>]
    /\ log_calls = [t \in LogThreads |-> 0]
    /\ fifo_fd = 0
    /\ fifo = <<>>
    /\ written = <<>>
    /\ assembly_buffer = <<>>
    /\ sequence_number = 1
    /\ fifo_closed = FALSE
    /\ log_file = <<[seq |-> 0, kind |-> "sink", text |-> <<>>]>>
    /\ sink_alive = TRUE
    /\ sigpipe_ignored = FALSE
    /\ fd_closes = 0

\* log_message, lines 95-159: the record is formatted, then the mutex taken
LogLock(t, len) ==
    /\ log_pc[t] = "idle"
    /\ fifo_fd # -1
    /\ log_calls[t] < MaxLogCalls
    /\ log_mutex = NoThread
    /\ log_mutex' = t
    /\ log_calls' = [log_calls EXCEPT ![t] = @ + 1]
    /\ final_buffer' = [final_buffer EXCEPT
                            ![t] = Record(t, log_calls[t] + 1, len)]
    /\ log_pc' = [log_pc EXCEPT ![t] = "write"]
    /\ UNCHANGED <<fifo_fd, fifo, written, sinkVars, deathVars, notLogVars>>

\* log_message, line 162: write(fifo_fd, final_buffer, final_len).  A write
\* to a FIFO without a reader raises SIGPIPE, which the gateway neither
\* blocks nor handles (main.c:89-95 and 196-200 deal with SIGINT, SIGTERM and
\* SIGUSR1 only): with the default disposition the process is killed, with
\* SIG_IGN inherited the write returns -1 with EPIPE.  A write to a
\* descriptor that was closed returns -1 with EBADF.
LogWrite(t) ==
    /\ log_pc[t] = "write"
    /\ IF fifo_fd = -1 \/ fd_closes > 0
       THEN /\ log_pc' = [log_pc EXCEPT ![t] = "unlock"]
            /\ UNCHANGED <<fifo, written>>
       ELSE IF sink_alive
       THEN /\ fifo' = fifo \o final_buffer[t]
            /\ written' = Append(written, final_buffer[t])
            /\ log_pc' = [log_pc EXCEPT ![t] = "unlock"]
       ELSE /\ log_pc' = IF sigpipe_ignored
                         THEN [log_pc EXCEPT ![t] = "unlock_epipe"]
                         ELSE [u \in LogThreads |-> "killed"]
            /\ UNCHANGED <<fifo, written>>
    /\ UNCHANGED <<log_mutex, final_buffer, log_calls, fifo_fd, sinkVars,
                   deathVars, notLogVars>>

\* log_message, lines 165-171: pthread_mutex_unlock, then the result of the
\* write is looked at
LogUnlock(t) ==
    /\ log_pc[t] \in {"unlock", "unlock_epipe"}
    /\ log_mutex' = NoThread
    /\ log_pc' = [log_pc EXCEPT ![t] = IF log_pc[t] = "unlock" THEN "idle"
                                       ELSE "close"]
    /\ UNCHANGED <<final_buffer, log_calls, fifo_fd, fifo, written, sinkVars,
                   deathVars, notLogVars>>

\* log_message, line 173: close(fifo_fd), outside the mutex; close(-1) closes
\* nothing.
LogClose(t) ==
    /\ log_pc[t] = "close"
    /\ fd_closes' = IF fifo_fd # -1 THEN fd_closes + 1 ELSE fd_closes
    /\ log_pc' = [log_pc EXCEPT ![t] = "forget"]
    /\ UNCHANGED <<log_mutex, final_buffer, log_calls, fifo_fd, fifo, written,
                   sinkVars, sink_alive, sigpipe_ignored, notLogVars>>

\* log_message, line 174: fifo_fd = -1
LogForget(t) ==
    /\ log_pc[t] = "forget"
    /\ fifo_fd' = -1
    /\ log_pc' = [log_pc EXCEPT ![t] = "idle"]
    /\ UNCHANGED <<log_mutex, final_buffer, log_calls, fifo, written,
                   sinkVars, deathVars, notLogVars>>

\* The log process dies (killed, or its disk is full and it exits); the
\* disposition of SIGPIPE is the one the gateway was started with.
SinkDies(ignored) ==
    /\ sink_alive
    /\ ~fifo_closed
    /\ sink_alive' = FALSE
    /\ sigpipe_ignored' = ignored
    /\ UNCHANGED <<log_mutex, log_pc, final_buffer, log_calls, fifo_fd, fifo,
                   written, sinkVars, fd_closes, notLogVars>>

\* logger_cleanup, lines 186-195, called by main after the threads were
\* joined: the write end is closed.
LoggerCleanup ==
    /\ fifo_fd # -1
    /\ \A t \in LogThreads : log_pc[t] = "idle"
    /\ fifo_fd' = -1
    /\ fd_closes' = fd_closes + 1
    /\ UNCHANGED <<log_mutex, log_pc, final_buffer, log_calls, fifo, written,
                   sinkVars, sink_alive, sigpipe_ignored, notLogVars>>

\* The index of the first newline of buf, 0 if it has none (memchr)
FirstNewline(buf) ==
    IF \E i \in 1..Len(buf) : buf[i].c = "\n"
    THEN CHOOSE i \in 1..Len(buf) :
             /\ buf[i].c = "\n"
             /\ \A j \in 1..(i - 1) : buf[j].c # "\n"
    ELSE 0

\* Mutant of Remainder: the bytes after the last complete line are dropped.
RemainderDropped(buf, processed_len) ==
    <<>>

\* run_log_process, lines 163-167: the bytes after the last complete line
\* are moved to the front of the assembly buffer.
Remainder(buf, processed_len) ==
    SubSeq(buf, processed_len + 1, Len(buf))

\* Mutant of ProcessLines: the sequence number is not incremented.
RECURSIVE ProcessLinesOneNumber(_, _)
ProcessLinesOneNumber(buf, st) ==
    LET rest == SubSeq(buf, st.done + 1, Len(buf))
        nl == FirstNewline(rest)
    IN  IF nl = 0 THEN st
        ELSE ProcessLinesOneNumber(buf,
                 [lines |-> Append(st.lines,
                                   [seq |-> st.seq, kind |-> "record",
                                    text |-> SubSeq(rest, 1, nl - 1)]),
                  seq |-> st.seq,
                  done |-> st.done + nl])

\* run_log_process, lines 122-161: every complete line of the assembly
\* buffer is written with the next sequence number.  st = [lines, seq, done]
\* with done the number of bytes processed.
RECURSIVE ProcessLines(_, _)
ProcessLines(buf, st) ==
    LET rest == SubSeq(buf, st.done + 1, Len(buf))
        nl == FirstNewline(rest)
    IN  IF nl = 0 THEN st
        ELSE ProcessLines(buf,
                 [lines |-> Append(st.lines,
                                   [seq |-> st.seq, kind |-> "record",
                                    text |-> SubSeq(rest, 1, nl - 1)]),
                  seq |-> st.seq + 1,
                  done |-> st.done + nl])

\* run_log_process, lines 83-168: one pass of the loop with data in the
\* FIFO.  read returns what is there, at most FIFO_READ_BUFFER_SIZE bytes;
\* on overflow of the assembly buffer a line says so and the buffer and the
\* chunk are dropped; else the chunk is appended and the complete lines are
\* written.
SinkRead ==
    /\ sink_alive
    /\ ~fifo_closed
    /\ fifo # <<>>
    /\ LET bytes_read == IF Len(fifo) < FIFO_READ_BUFFER_SIZE
                         THEN Len(fifo) ELSE FIFO_READ_BUFFER_SIZE
           buf == assembly_buffer \o SubSeq(fifo, 1, bytes_read)
           st == ProcessLines(buf, [lines |-> log_file,
                                    seq |-> sequence_number, done |-> 0])
       IN  /\ fifo' = SubSeq(fifo, bytes_read + 1, Len(fifo))
           /\ IF Len(assembly_buffer) + bytes_read >= ASSEMBLY_BUFFER_SIZE
              THEN /\ assembly_buffer' = <<>>
                   /\ log_file' = Append(log_file,
                                         [seq |-> 0, kind |-> "overflow",
                                          text |-> <<>>])
                   /\ UNCHANGED sequence_number
              ELSE /\ assembly_buffer' = Remainder(buf, st.done)
                   /\ log_file' = st.lines
                   /\ sequence_number' = st.seq
    /\ UNCHANGED <<log_mutex, log_pc, final_buffer, log_calls, fifo_fd,
                   written, fifo_closed, deathVars, notLogVars>>

\* Mutant of SinkEof: what is left in the assembly buffer is not written.
SinkEofNoPartial ==
    /\ sink_alive
    /\ ~fifo_closed
    /\ fifo = <<>>
    /\ fifo_fd = -1
    /\ fifo_closed' = TRUE
    /\ log_file' = Append(log_file, [seq |-> sequence_number, kind |-> "sink",
                                     text |-> <<>>])
    /\ UNCHANGED <<log_mutex, log_pc, final_buffer, log_calls, fifo_fd, fifo,
                   written, assembly_buffer, sequence_number, deathVars,
                   notLogVars>>

\* run_log_process, lines 100-103 and 170-198: read returns 0 when the FIFO is
\* empty and its write end closed; what is left in the assembly buffer is
\* written as a partial line, then the last line of the log process.
SinkEof ==
    /\ sink_alive
    /\ ~fifo_closed
    /\ fifo = <<>>
    /\ fifo_fd = -1
    /\ fifo_closed' = TRUE
    /\ LET partial == IF assembly_buffer = <<>> THEN <<>>
                      ELSE <<[seq |-> sequence_number, kind |-> "partial",
                              text |-> assembly_buffer]>>
       IN  /\ sequence_number' = sequence_number + Len(partial)
           /\ log_file' = log_file \o partial \o
                              <<[seq |-> sequence_number + Len(partial),
                                 kind |-> "sink", text |-> <<>>]>>
    /\ UNCHANGED <<log_mutex, log_pc, final_buffer, log_calls, fifo_fd, fifo,
                   written, assembly_buffer, deathVars, notLogVars>>

\* The bytes a writer of the FIFO may write, one by one, whatever they are
MaxStream == 14

\* The bytes written to the FIFO so far, as one sequence
Stream == IF written = <<>> THEN <<>> ELSE written[1]

\* write(fifo_fd, ...) by a writer that writes any bytes: the byte is in
\* the FIFO, as the next byte of the stream.
StreamWrite(ch) ==
    /\ fifo_fd # -1
    /\ Len(Stream) < MaxStream
    /\ LET byte == [c |-> ch, of |-> <<"stream", Len(Stream) + 1>>] IN
         /\ fifo' = Append(fifo, byte)
         /\ written' = <<Append(Stream, byte)>>
    /\ UNCHANGED <<log_mutex, log_pc, final_buffer, log_calls, fifo_fd,
                   sinkVars, deathVars, notLogVars>>

\* The log process and any byte stream, its end included.
NextSink ==
    \/ \E ch \in {"x", "\n"} : StreamWrite(ch)
    \/ LoggerCleanup
    \/ SinkRead
    \/ SinkEof

NextLogger ==
    \/ \E t \in LogThreads : \E len \in RecordLens : LogLock(t, len)
    \/ \E t \in LogThreads : LogWrite(t) \/ LogUnlock(t)
    \/ \E t \in LogThreads : LogClose(t) \/ LogForget(t)
    \/ \E ignored \in BOOLEAN : SinkDies(ignored)
    \/ LoggerCleanup
    \/ SinkRead
    \/ SinkEof

(***************************************************************************)
(* main (main.c): start-up, with each fatal failure and its rollback, then *)
(* the wait for SIGINT or SIGTERM and the shutdown of Ingress.  Of the     *)
(* workers only Ingress is followed here.  Memory and mutexes of the       *)
(* process are not tracked as resources.                                   *)
(***************************************************************************)
\* stdlib.h, as used at main.c:405
EXIT_SUCCESS == 0
EXIT_FAILURE == 1

BootInit ==
    /\ boot_pc = "logger_init"
    /\ resources = {}

\* main returns on a start-up failure, after the rollback it made
StartFails(left) ==
    /\ resources' = left
    /\ exit_status' = EXIT_FAILURE
    /\ boot_pc' = "failed"

\* main, lines 89-95: SIGINT and SIGTERM are blocked before the fork, and
\* the log process, which never changes its mask, inherits that.
SinkMask == {"SIGINT", "SIGTERM"}

\* kill(log_pid, sig): a blocked signal stays pending and ends nothing.
Kill(sig) ==
    IF sig \in SinkMask THEN resources ELSE resources \ {"sink"}

\* main, lines 161-162 and 185-186: kill(log_pid, SIGTERM), then
\* waitpid(log_pid, NULL, 0)
StartKillsSink ==
    /\ resources' = Kill("SIGTERM")
    /\ boot_pc' = "waitpid"
    /\ UNCHANGED exit_status

\* main, lines 162-168 and 186-192: waitpid returns when the log process
\* has ended; then logger_cleanup, and main returns EXIT_FAILURE.
StartReaped ==
    /\ boot_pc = "waitpid"
    /\ "sink" \notin resources
    /\ StartFails({})
    /\ UNCHANGED <<notBootVars, terminate_flag, signal_pending>>

\* run_log_process, lines 57-70: the log process ends on its own when it
\* cannot open the log file.
StartSinkExits ==
    /\ "sink" \in resources
    /\ boot_pc \in {"fifo_open", "sbuffer_init", "waitpid"}
    /\ resources' = resources \ {"sink"}
    /\ UNCHANGED <<notBootVars, boot_pc, procVars, terminate_flag>>

\* main, lines 119-123: logger_init (mutex, mkfifo)
StartLogger(ok) ==
    /\ boot_pc = "logger_init"
    /\ IF ok
       THEN /\ resources' = resources \cup {"fifo_file"}
            /\ boot_pc' = "fork"
            /\ UNCHANGED exit_status
       ELSE StartFails(resources)
    /\ UNCHANGED <<notBootVars, terminate_flag, signal_pending>>

\* main, lines 139-152: fork of the log process; on failure logger_cleanup
StartFork(ok) ==
    /\ boot_pc = "fork"
    /\ IF ok
       THEN /\ resources' = resources \cup {"sink"}
            /\ boot_pc' = "fifo_open"
            /\ UNCHANGED exit_status
       ELSE StartFails({})
    /\ UNCHANGED <<notBootVars, terminate_flag, signal_pending>>

\* main, lines 158-169: logger_open_write_fifo; on failure the log process
\* is killed and waited for, then logger_cleanup
StartFifo(ok) ==
    /\ boot_pc = "fifo_open"
    /\ IF ok
       THEN /\ resources' = resources \cup {"fifo_fd"}
            /\ boot_pc' = "sbuffer_init"
            /\ UNCHANGED exit_status
       ELSE StartKillsSink
    /\ UNCHANGED <<notBootVars, terminate_flag, signal_pending>>

\* main, lines 182-193: sbuffer_init; on failure the log process is killed
\* and waited for, then logger_cleanup
StartBuffer(ok) ==
    /\ boot_pc = "sbuffer_init"
    /\ IF ok
       THEN /\ boot_pc' = "create"
            /\ UNCHANGED <<resources, exit_status>>
       ELSE StartKillsSink
    /\ UNCHANGED <<notBootVars, terminate_flag, signal_pending>>

\* main, lines 222-262: the worker threads are created
StartThreads ==
    /\ boot_pc = "create"
    /\ boot_pc' = "sigwait"
    /\ UNCHANGED <<notBootVars, resources, procVars, terminate_flag>>

\* SIGINT or SIGTERM is sent to the gateway from outside.
StartSignal ==
    /\ boot_pc = "sigwait"
    /\ ~signal_pending
    /\ signal_pending' = TRUE
    /\ UNCHANGED <<notBootVars, bootVars, terminate_flag, exit_status>>

\* main, lines 269-277: sigwaitinfo returns the pending signal
StartSigwait ==
    /\ boot_pc = "sigwait"
    /\ signal_pending
    /\ signal_pending' = FALSE
    /\ terminate_flag' = TRUE
    /\ boot_pc' = "stop"
    /\ UNCHANGED <<notBootVars, resources, exit_status>>

\* main, lines 345-405: Ingress is joined after conmgt_stop has returned;
\* the buffer is freed, logger_cleanup closes and removes the FIFO, the log
\* process is waited for, main returns.
StartFinish ==
    /\ boot_pc = "stop"
    /\ stop_log # <<>>
    /\ stop_pc = "idle"
    /\ conmgt_pc = "returned"
    /\ resources' = {}
    /\ exit_status' = IF terminate_flag THEN EXIT_FAILURE ELSE EXIT_SUCCESS
    /\ boot_pc' = "exited"
    /\ UNCHANGED <<notBootVars, terminate_flag, signal_pending>>

\* The steps of the main thread
StartMain ==
    \/ \E ok \in BOOLEAN :
           StartLogger(ok) \/ StartFork(ok) \/ StartFifo(ok) \/ StartBuffer(ok)
    \/ StartReaped
    \/ StartThreads
    \/ StartSigwait
    \/ StartFinish

\* main, lines 285-289: conmgt_stop, called once
StartStop ==
    /\ boot_pc = "stop"
    /\ \/ stop_log = <<>> /\ StopCall
       \/ StopStep

\* The Ingress thread exists from its creation on.
StartIngress ==
    /\ boot_pc \in {"sigwait", "stop"}
    /\ \/ ConmgtThread
       \/ ConmgtPass

NextStartup ==
    \/ StartMain
    \/ StartStop
    \/ StartIngress
    \/ StartSinkExits
    \/ StartSignal
    \/ Tick

(***************************************************************************)
(* The admin socket (cmdif.c): the loop of cmdif_run between listen and    *)
(* cmdif_stop.  A client is known by what it does after connecting: it     *)
(* sends a command ("stats", "status", or any other text), it sends        *)
(* nothing and shuts its side down ("eof"), or the connection is reset     *)
(* ("reset").                                                              *)
(***************************************************************************)
\* connections made to the admin socket
MaxAdminConns == 3

AdminInputs == {"stats", "status", "other", "eof", "reset"}

\* cmdif_run, lines 61-94: the socket listens, nobody has connected
AdminInit ==
    /\ admin_pc = "accept"
    /\ admin_conns = <<>>
    /\ client_sd = -1

\* A client connects and waits in the backlog of the socket.
AdminConnect(input) ==
    /\ Len(admin_conns) < MaxAdminConns
    /\ admin_conns' = Append(admin_conns,
                             [input |-> input, state |-> "waiting",
                              responses |-> <<>>])
    /\ UNCHANGED <<admin_pc, client_sd, notAdminVars>>

\* cmdif_run, lines 97-108: accept returns the oldest waiting connection
CmdifAccept ==
    /\ admin_pc = "accept"
    /\ \E k \in 1..Len(admin_conns) :
           /\ admin_conns[k].state = "waiting"
           /\ \A j \in 1..(k - 1) : admin_conns[j].state # "waiting"
           /\ client_sd' = k
           /\ admin_conns' = [admin_conns EXCEPT ![k].state = "open"]
    /\ admin_pc' = "read"
    /\ UNCHANGED notAdminVars

\* conmgt_get_connection_stats as cmdif_run sees it: its result is negative,
\* zero or the number of rows it wrote.
StatsCounts == {-1, 0, 1}

\* cmdif_run, lines 124-156: the text of the response to a command
Response(command, rows) ==
    IF command = "stats"
    THEN IF rows < 0 THEN "ERROR: Failed to get stats"
         ELSE IF rows = 0 THEN "No active connections."
         ELSE "stats table"
    ELSE IF command = "status" THEN "System Status"
    ELSE "ERROR: Unknown command"

\* cmdif_run, lines 115-117: bytes_read > 0
GotCommand(input) ==
    input \notin {"eof", "reset"}

\* cmdif_run, lines 113-169: one read; a command is answered with one write,
\* an end of file or a read error with nothing.
CmdifServe ==
    /\ admin_pc = "read"
    /\ LET input == admin_conns[client_sd].input
       IN  IF GotCommand(input)
           THEN \E rows \in StatsCounts :
                    admin_conns' =
                        [admin_conns EXCEPT ![client_sd].responses =
                            Append(@, Response(input, rows))]
           ELSE UNCHANGED admin_conns
    /\ admin_pc' = "close"
    /\ UNCHANGED <<client_sd, notAdminVars>>

\* cmdif_run, lines 171-174: close(client_sd), back to accept
CmdifClose ==
    /\ admin_pc = "close"
    /\ admin_conns' = [admin_conns EXCEPT ![client_sd].state = "closed"]
    /\ client_sd' = -1
    /\ admin_pc' = "accept"
    /\ UNCHANGED notAdminVars

NextAdmin ==
    \/ \E input \in AdminInputs : AdminConnect(input)
    \/ CmdifAccept
    \/ CmdifServe
    \/ CmdifClose

(***************************************************************************)
(* Storage (storagemgt.c): the retry queue as the array it is, with the    *)
(* lines that its functions log.                                           *)
(***************************************************************************)
\* RETRY_QUEUE_INITIAL_CAPACITY of storagemgt.c (20), scaled down.
MaxRetryQueue == 3

RETRY_QUEUE_INITIAL_CAPACITY == MaxRetryQueue

RingSlots == 0..(RETRY_QUEUE_INITIAL_CAPACITY - 1)
\* the sensor ids of the readings put on the queue
RingItems == {1, 2, 3}

\* init_retry_queue, lines 344-358; 0 stands for memory never written
RingInit ==
    /\ retry_ring = [items |-> [k \in RingSlots |-> 0],
                     capacity |-> RETRY_QUEUE_INITIAL_CAPACITY,
                     head |-> 0, tail |-> 0, count |-> 0]
    /\ retry_log = <<>>

\* is_retry_queue_empty, lines 375-377
is_retry_queue_empty(q) == q.count = 0

\* Mutant of is_retry_queue_full: the comparison is off by one.
IsFullOffByOne(q) == q.count > q.capacity

\* is_retry_queue_full, lines 384-386
is_retry_queue_full(q) == q.count >= q.capacity

\* dequeue_retry_item, lines 427-440: the queue after the call, the item
\* copied out and the levels of the lines logged
dequeue_retry_item(q) ==
    IF is_retry_queue_empty(q)
    THEN [q |-> q, ok |-> FALSE, item |-> 0, log |-> <<>>]
    ELSE [q |-> [q EXCEPT !.head = (q.head + 1) % q.capacity,
                          !.count = q.count - 1],
          ok |-> TRUE, item |-> q.items[q.head], log |-> <<"DEBUG">>]

\* enqueue_retry_item, lines 397-419, on the array: the queue after the call
\* and the levels of the lines logged
EnqueueRing(q, r) ==
    LET full == is_retry_queue_full(q)
        d == dequeue_retry_item(q)
        q1 == IF full THEN d.q ELSE q
        dropping == IF full
                    THEN <<"WARNING">> \o d.log
                             \o <<IF d.ok THEN "WARNING" ELSE "ERROR">>
                    ELSE <<>>
    IN  IF full /\ ~d.ok
        THEN [q |-> q, log |-> dropping]
        ELSE [q |-> [q1 EXCEPT !.items[q1.tail] = r,
                               !.tail = (q1.tail + 1) % q1.capacity,
                               !.count = q1.count + 1],
              log |-> dropping \o <<"DEBUG">>]

\* storagemgt_run, line 255: enqueue_retry_item(&current_data)
RetryEnqueue(r) ==
    /\ retry_ring' = EnqueueRing(retry_ring, r).q
    /\ retry_log' = EnqueueRing(retry_ring, r).log
    /\ UNCHANGED notRingVars

\* storagemgt_run, line 236: dequeue_retry_item(&removed_item)
RetryDequeue ==
    /\ ~is_retry_queue_empty(retry_ring)
    /\ retry_ring' = dequeue_retry_item(retry_ring).q
    /\ retry_log' = dequeue_retry_item(retry_ring).log
    /\ UNCHANGED notRingVars

NextRing ==
    \/ \E r \in RingItems : RetryEnqueue(r)
    \/ RetryDequeue

\* The initial state of everything outside the buffer and its callers.
(***************************************************************************)
(* The three mutexes: conmgt_mutex of the client table, the mutex of the   *)
(* shared buffer and log_mutex.  A function is the sequence of its lock,    *)
(* unlock and condition steps; what it does in between is left out.        *)
(***************************************************************************)
Locks == {"conmgt_mutex", "buffer", "log_mutex"}
LockThreads == {"conmgt", "cmdif", "datamgt", "storagemgt"}

\* log_message, logger.c lines 154-167: the write under log_mutex
LogSteps == << <<"lock", "log_mutex">>, <<"unlock", "log_mutex">> >>

\* sbuffer_insert, sbuffer.c lines 125-160
InsertSteps ==
    << <<"lock", "buffer">>, <<"wait", "not_full">>, <<"unlock", "buffer">> >>

\* sbuffer_remove, sbuffer.c lines 182-221
RemoveSteps ==
    << <<"lock", "buffer">>, <<"wait", "not_empty">>, <<"unlock", "buffer">> >>

\* handle_new_connection, lines 328-352: the count under the mutex, a line
\* logged, add_client and its line under the mutex
NewConnectionSteps ==
    << <<"lock", "conmgt_mutex">>, <<"unlock", "conmgt_mutex">> >>
    \o LogSteps
    \o << <<"lock", "conmgt_mutex">> >> \o LogSteps
    \o << <<"unlock", "conmgt_mutex">> >>

\* Mutant of FrameSteps: the frame is handled under conmgt_mutex.
FrameStepsUnderMutex ==
    << <<"lock", "conmgt_mutex">> >> \o LogSteps \o InsertSteps \o LogSteps
    \o << <<"unlock", "conmgt_mutex">> >>

\* handle_client_data, lines 407-438: a frame; a line logged, sbuffer_insert,
\* a line logged
FrameSteps == LogSteps \o InsertSteps \o LogSteps

\* handle_client_data, lines 382-405 and 442-455: a line logged, then
\* remove_client and its lines under the mutex
CloseSteps ==
    LogSteps
    \o << <<"lock", "conmgt_mutex">> >> \o LogSteps \o LogSteps
    \o << <<"unlock", "conmgt_mutex">> >>

\* check_sensor_timeouts, lines 463-483: the lines and remove_client under
\* the mutex
TimeoutSteps ==
    << <<"lock", "conmgt_mutex">> >> \o LogSteps \o LogSteps
    \o << <<"unlock", "conmgt_mutex">> >>

\* conmgt_get_connection_stats and conmgt_get_active_connections, lines
\* 578-644, called by the admin thread: the mutex, then a line logged
StatsSteps ==
    << <<"lock", "conmgt_mutex">>, <<"unlock", "conmgt_mutex">> >>
    \o LogSteps

\* datamgt_run, lines 100-139, and storagemgt_run, lines 209-242:
\* sbuffer_remove, then lines logged
ConsumerSteps == RemoveSteps \o LogSteps

\* The functions of a thread.
StepsOf(t) ==
    CASE t = "conmgt" -> {NewConnectionSteps, FrameSteps, CloseSteps,
                          TimeoutSteps}
      [] t = "cmdif" -> {StatsSteps}
      [] OTHER -> {ConsumerSteps}

LocksInit ==
    /\ lock_holder = [m \in Locks |-> NoThread]
    /\ lock_plan = [t \in LockThreads |-> <<>>]
    /\ lock_count = 0

\* Thread t enters one of its functions.
LkBegin(t, steps) ==
    /\ lock_plan[t] = <<>>
    /\ steps \in StepsOf(t)
    /\ lock_plan' = [lock_plan EXCEPT ![t] = steps]
    /\ UNCHANGED <<lock_holder, lock_count>>

\* pthread_mutex_lock returns once the mutex is free.
LkAcquire(t) ==
    /\ lock_plan[t] # <<>>
    /\ Head(lock_plan[t])[1] = "lock"
    /\ lock_holder[Head(lock_plan[t])[2]] = NoThread
    /\ lock_holder' = [lock_holder EXCEPT ![Head(lock_plan[t])[2]] = t]
    /\ lock_plan' = [lock_plan EXCEPT ![t] = Tail(@)]
    /\ UNCHANGED lock_count

\* pthread_mutex_unlock
LkRelease(t) ==
    /\ lock_plan[t] # <<>>
    /\ Head(lock_plan[t])[1] = "unlock"
    /\ lock_holder' = [lock_holder EXCEPT ![Head(lock_plan[t])[2]] = NoThread]
    /\ lock_plan' = [lock_plan EXCEPT ![t] = Tail(@)]
    /\ UNCHANGED lock_count

\* sbuffer.c, lines 136-155 and 193-216: the while loop on the condition.
\* With the buffer full (empty) the thread waits in pthread_cond_wait, which
\* releases the mutex; else the reading is stored (taken).
LkCondition(t) ==
    /\ lock_plan[t] # <<>>
    /\ Head(lock_plan[t])[1] = "wait"
    /\ LET cond == Head(lock_plan[t])[2]
           blocks == IF cond = "not_full" THEN lock_count = SBUFFER_SIZE
                     ELSE lock_count = 0
       IN  IF blocks
           THEN /\ lock_holder' = [lock_holder EXCEPT !["buffer"] = NoThread]
                /\ lock_plan' = [lock_plan EXCEPT
                                    ![t] = << <<"woken", cond>> >> \o @]
                /\ UNCHANGED lock_count
           ELSE /\ lock_count' = IF cond = "not_full" THEN lock_count + 1
                                 ELSE lock_count - 1
                /\ lock_plan' = [lock_plan EXCEPT ![t] = Tail(@)]
                /\ UNCHANGED lock_holder

\* pthread_cond_wait returns, after a signal or spuriously, with the mutex
\* taken again; the loop tests its condition again.
LkWoken(t) ==
    /\ lock_plan[t] # <<>>
    /\ Head(lock_plan[t])[1] = "woken"
    /\ lock_holder["buffer"] = NoThread
    /\ lock_holder' = [lock_holder EXCEPT !["buffer"] = t]
    /\ lock_plan' = [lock_plan EXCEPT ![t] = Tail(@)]
    /\ UNCHANGED lock_count

NextLocks ==
    /\ \E t \in LockThreads :
          \/ \E steps \in StepsOf(t) : LkBegin(t, steps)
          \/ LkAcquire(t)
          \/ LkRelease(t)
          \/ LkCondition(t)
          \/ LkWoken(t)
    /\ UNCHANGED notLockVars

(***************************************************************************)
(* main (main.c): the threads are created, main waits for a signal, stops  *)
(* and joins the threads and releases what they shared.                    *)
(***************************************************************************)
Workers == {"conmgt", "cmdif", "datamgt", "storagemgt"}

\* main, lines 225-262: the order of the pthread_create calls
CreateOrder == <<"conmgt", "datamgt", "storagemgt", "cmdif">>

\* main, lines 286-309: the order of the stop calls
StopOrder == <<"conmgt", "cmdif", "datamgt", "storagemgt">>

\* Mutant of JoinOrder: the threads are joined in the order of their
\* creation.
JoinOrderAsCreated == <<"conmgt", "datamgt", "storagemgt", "cmdif">>

\* main, lines 321-362: the order of the pthread_join calls
JoinOrder == <<"cmdif", "storagemgt", "datamgt", "conmgt">>

MainInit ==
    /\ main_pc = "create"
    /\ created = {}
    /\ running = {}
    /\ main_log = <<>>

\* The threads of `order` that main created, in that order.
CreatedIn(order) == SelectSeq(order, LAMBDA w : w \in created)

\* The threads main has still to join, in the order of the joins.
ToJoin ==
    SelectSeq(JoinOrder,
              LAMBDA w : /\ w \in created
                         /\ \A i \in 1..Len(main_log) :
                                main_log[i] # <<"join", w>>)

\* main, lines 225-262: the next pthread_create; when it fails main goes to
\* immediate_cleanup_on_create_fail, after the last one to sigwaitinfo.
MainCreate(ok) ==
    /\ main_pc = "create"
    /\ LET w == CreateOrder[Cardinality(created) + 1] IN
         IF ok
         THEN /\ created' = created \cup {w}
              /\ running' = running \cup {w}
              /\ main_pc' = IF Cardinality(created) + 1 = Len(CreateOrder)
                            THEN "sigwait" ELSE "create"
         ELSE /\ main_pc' = "stop"
              /\ UNCHANGED <<created, running>>
    /\ UNCHANGED <<sbufVars, callVars, histVars, gwVars, extButMain,
                   main_log>>

\* A thread function returns: after its stop call, on the shutdown of the
\* buffer, on terminate_flag, or before any of them on an error of its own.
ThreadReturns(w) ==
    /\ w \in running
    /\ running' = running \ {w}
    /\ UNCHANGED <<sbufVars, callVars, histVars, gwVars, extButMain, main_pc,
                   created, main_log>>

\* main, lines 269-277: sigwaitinfo returns, with a signal or with -1;
\* terminate_flag is set.
MainSigwait ==
    /\ main_pc = "sigwait"
    /\ terminate_flag' = TRUE
    /\ main_log' = Append(main_log, <<"set", "terminate_flag">>)
    /\ main_pc' = "stop"
    /\ UNCHANGED <<sbufVars, callVars, histVars, loc, stop_requested, db_up,
                   storVars, frames, procVars, extButMain, created, running>>

\* main, lines 285-315: the stop function of every created thread, then
\* the call of sbuffer_signal_shutdown.
MainStops ==
    /\ main_pc = "stop"
    /\ stop_requested' = ("conmgt" \in created)
    /\ main_log' = main_log
                      \o [i \in 1..Len(CreatedIn(StopOrder)) |->
                             <<"stop", CreatedIn(StopOrder)[i]>>]
                      \o << <<"signal_shutdown", "buffer">> >>
    /\ pc["main"] = "idle"
    /\ pc' = [pc EXCEPT !["main"] = "sd_lock"]
    /\ ret' = [ret EXCEPT !["main"] = NoRet]
    /\ nShutdownCalls' = nShutdownCalls + 1
    /\ main_pc' = "join"
    /\ UNCHANGED <<sbufVars, data, inserted, removed, nInsertCalls, loc,
                   terminate_flag, db_up, storVars, frames, procVars,
                   extButMain, created, running>>

\* main, lines 321-362: the next pthread_join returns once the thread's
\* function has returned.
MainJoinThread ==
    /\ main_pc = "join"
    /\ pc["main"] = "idle"
    /\ ToJoin # <<>>
    /\ Head(ToJoin) \notin running
    /\ main_log' = Append(main_log, <<"join", Head(ToJoin)>>)
    /\ UNCHANGED <<sbufVars, callVars, histVars, gwVars, extButMain, main_pc,
                   created, running>>

\* main, lines 366-373: datamgt_free_room_sensor_map and sbuffer_free
MainFree ==
    /\ main_pc = "join"
    /\ pc["main"] = "idle"
    /\ ToJoin = <<>>
    /\ main_log' = main_log \o << <<"free", "room_map">>,
                                  <<"free", "buffer">> >>
    /\ main_pc' = "logger_cleanup"
    /\ UNCHANGED <<sbufVars, callVars, histVars, gwVars, extButMain, created,
                   running>>

\* main, line 376: logger_cleanup closes the write end of the FIFO
MainLoggerCleanup ==
    /\ main_pc = "logger_cleanup"
    /\ main_log' = Append(main_log, <<"close", "log">>)
    /\ main_pc' = "waitpid"
    /\ UNCHANGED <<sbufVars, callVars, histVars, gwVars, extButMain, created,
                   running>>

\* main, lines 381-405: waitpid returns for the log process; main returns.
MainReap ==
    /\ main_pc = "waitpid"
    /\ main_log' = Append(main_log, <<"reap", "sink">>)
    /\ main_pc' = "exited"
    /\ exit_status' = IF terminate_flag THEN EXIT_FAILURE ELSE EXIT_SUCCESS
    /\ UNCHANGED <<sbufVars, callVars, histVars, loc, ctlVars, db_up,
                   storVars, frames, signal_pending, extButMain, created,
                   running>>

NextMain ==
    \/ \E ok \in BOOLEAN : MainCreate(ok)
    \/ \E w \in Workers : ThreadReturns(w)
    \/ MainSigwait
    \/ MainStops
    \/ ShutdownLock("main")
    \/ ShutdownSet("main")
    \/ MainJoinThread
    \/ MainFree
    \/ MainLoggerCleanup
    \/ MainReap

\* storagemgt_run has made no connection attempt and does not sleep.
ConnInit ==
    /\ sleep_left = 0
    /\ conn_events = <<>>

ExtInit ==
    /\ AlertsInit /\ ClientsInit /\ IngressInit /\ LoggerInit /\ BootInit
    /\ AdminInit /\ TableInit /\ RingInit /\ ConnInit /\ MainInit /\ ScanInit /\ LocksInit

\* The state of the gateway around the buffer: thread t starts its thread
\* function at position at[t]; nothing was connected, read or written yet.
GatewayInit(at) ==
    /\ loc = at
    /\ terminate_flag = FALSE
    /\ stop_requested = FALSE
    /\ db_up = TRUE
    /\ db_connected = FALSE
    /\ retry_count = 0
    /\ retry_queue = <<>>
    /\ processing_retry_item = FALSE
    /\ db_rows = <<>>
    /\ frames = <<>>
    /\ fatal_logged = FALSE
    /\ parent_signalled = FALSE
    /\ signal_pending = FALSE
    /\ exit_status = -1
    /\ ExtInit

\* The buffer alone: no thread function runs, the clients call the buffer.
GatewayOff == GatewayInit([t \in Threads |-> "client"])

\* One producer, two consumers, one thread signalling shutdown.
Init == SbufferInit /\ ClientInit(Threads) /\ GatewayOff

\* One producer and a single consumer.
InitOneConsumer ==
    SbufferInit /\ ClientInit(Threads \ {"storagemgt"}) /\ GatewayOff

\* The steps of the producer and of the consumers.
NextRunning ==
    \E t \in Threads :
        \/ InsertCall(t)
        \/ InsertLock(t)
        \/ InsertCheck(t)
        \/ InsertWake(t)
        \/ InsertLoop(t)
        \/ RemoveCall(t)
        \/ RemoveLock(t)
        \/ RemoveCheck(t)
        \/ RemoveWake(t)
        \/ RemoveRecheck(t)
        \/ SpuriousWakeup(t)

\* The steps of the thread that signals shutdown.
NextShutdown ==
    \E t \in Threads :
        \/ ShutdownCall(t)
        \/ ShutdownLock(t)
        \/ ShutdownSet(t)

Next == NextRunning \/ NextShutdown

Spec == Init /\ [][Next]_vars

SpecOneConsumer == InitOneConsumer /\ [][Next]_vars


(***************************************************************************)
(* The gateway: the threads main() creates around the one shared buffer.   *)
(* A thread inside a buffer operation steps through it with the actions of *)
(* sbuffer above; its thread function goes on when the operation returned  *)
(* (pc = "idle").  Thread creation and the pthread calls do not fail.      *)
(***************************************************************************)
\* Number of valid frames the sensors send.
MaxFrames == 2
\* config.h
DB_CONNECT_RETRY_ATTEMPTS == 3

\* Thread t calls a buffer operation: it enters it at position p.
Calls(t, p) ==
    /\ pc[t] = "idle"
    /\ pc' = [pc EXCEPT ![t] = p]
    /\ ret' = [ret EXCEPT ![t] = NoRet]

\* Thread t's buffer operation returned and its function goes on from `at`.
Returned(t, at) == loc[t] = at /\ pc[t] = "idle"

Goto(t, at) == loc' = [loc EXCEPT ![t] = at]

\* --- conmgt.c ---------------------------------------------------------
\* handle_client_data, lines 407-432: a valid 10-byte frame was read; the
\* reading is built and passed to sbuffer_insert.  No step modelled here
\* depends on the sensor id or the value, so the k-th frame is the reading
\* of sensor 1 read at time k.
ConmgtFrame(t) ==
    /\ t = "conmgt"
    /\ loc[t] = "select"
    /\ ~stop_requested
    /\ nInsertCalls < MaxFrames
    /\ LET r == [id |-> 1, ts |-> nInsertCalls + 1] IN
           /\ data' = [data EXCEPT ![t] = r]
           /\ frames' = Append(frames, r)
    /\ nInsertCalls' = nInsertCalls + 1
    /\ Calls(t, "ins_lock")
    /\ Goto(t, "insert")
    /\ UNCHANGED <<sbufVars, inserted, removed, nShutdownCalls, ctlVars,
                   db_up, storVars, extVars, procVars>>

\* handle_client_data, lines 433-440: the result of sbuffer_insert is only
\* logged; a reading that was not inserted is dropped.
ConmgtInserted(t) ==
    /\ t = "conmgt"
    /\ Returned(t, "insert")
    /\ Goto(t, "select")
    /\ UNCHANGED <<sbufVars, callVars, histVars, ctlVars, db_up, storVars,
                   frames, extVars, procVars>>

\* conmgt_run, lines 147-153: the byte written by conmgt_stop is read from
\* the shutdown pipe and the loop ends.
ConmgtExit(t) ==
    /\ t = "conmgt"
    /\ loc[t] = "select"
    /\ stop_requested
    /\ Goto(t, "done")
    /\ UNCHANGED <<sbufVars, callVars, histVars, ctlVars, db_up, storVars,
                   frames, extVars, procVars>>

\* --- datamgt.c --------------------------------------------------------
\* datamgt_run, lines 92-100: terminate_flag is checked at the head of the
\* loop, then sbuffer_remove is called.
DatamgtLoop(t) ==
    /\ t = "datamgt"
    /\ loc[t] = "loop"
    /\ IF terminate_flag
       THEN /\ Goto(t, "done")
            /\ UNCHANGED <<pc, ret>>
       ELSE /\ Calls(t, "rem_lock")
            /\ Goto(t, "remove")
    /\ UNCHANGED <<sbufVars, data, histVars, ctlVars, db_up, storVars,
                   frames, extVars, procVars>>

\* datamgt_run, lines 102-141: the sentinel ends the loop; a reading is
\* processed (one of sensor 0 is dropped with a warning) and the loop goes on.
DatamgtRemoved(t) ==
    /\ t = "datamgt"
    /\ Returned(t, "remove")
    /\ Goto(t, IF ret[t] = SBUFFER_SHUTDOWN THEN "done" ELSE "loop")
    /\ UNCHANGED <<sbufVars, callVars, histVars, ctlVars, db_up, storVars,
                   frames, extVars, procVars>>

\* --- storagemgt.c -----------------------------------------------------
\* db_connect and db_insert_sensor_data succeed exactly when the database is
\* up; the environment takes it down and brings it back at any time.
DbFails ==
    /\ db_up
    /\ db_up' = FALSE
    /\ UNCHANGED <<sbufVars, callVars, histVars, loc, ctlVars, storVars,
                   frames, extVars, procVars>>

DbRecovers ==
    /\ ~db_up
    /\ db_up' = TRUE
    /\ UNCHANGED <<sbufVars, callVars, histVars, loc, ctlVars, storVars,
                   frames, extVars, procVars>>

\* The processes: main() forks the log process (main.c:139) and runs the
\* threads itself; the gateway was started by a launcher.
Parent == [gateway |-> "launcher", sink |-> "gateway"]

getppid(p) == Parent[p]

\* storagemgt_run, lines 126-134 and 178-186: kill(getppid(), SIGTERM),
\* called by a thread of the gateway process.  The signal is pending for
\* the gateway afterwards when the gateway is the process it was sent to.
KillParent ==
    /\ parent_signalled' = TRUE
    /\ signal_pending' = (signal_pending \/ getppid("gateway") = "gateway")

\* One pass of a connect loop (lines 98-138 and 149-190): leave on
\* terminate_flag; a connect that succeeds leads to `connected`; the
\* DB_CONNECT_RETRY_ATTEMPTS-th failure is logged at FATAL level, SIGTERM is
\* sent to getppid() and the thread leaves.
ConnectAttempt(t, connected) ==
    IF terminate_flag
    THEN /\ Goto(t, "done")
         /\ UNCHANGED <<db_connected, retry_count, fatal_logged,
                        parent_signalled, signal_pending>>
    ELSE IF db_up
    THEN /\ db_connected' = TRUE
         /\ Goto(t, connected)
         /\ UNCHANGED <<retry_count, fatal_logged, parent_signalled,
                        signal_pending>>
    ELSE /\ retry_count' = retry_count + 1
         /\ IF retry_count + 1 < DB_CONNECT_RETRY_ATTEMPTS
            THEN UNCHANGED <<loc, fatal_logged, parent_signalled,
                             signal_pending>>
            ELSE /\ fatal_logged' = TRUE
                 /\ KillParent
                 /\ Goto(t, "done")
         /\ UNCHANGED db_connected

\* storagemgt_run, lines 98-138: the initial connection
StorageConnect(t) ==
    /\ t = "storagemgt"
    /\ loc[t] = "connect"
    /\ ConnectAttempt(t, "loop")
    /\ UNCHANGED <<sbufVars, callVars, histVars, ctlVars, db_up, retry_queue,
                   processing_retry_item, db_rows, frames, extVars,
                   exit_status>>

\* storagemgt_run, lines 149-190: reconnecting after a failed insert
StorageReconnect(t) ==
    /\ t = "storagemgt"
    /\ loc[t] = "reconnect"
    /\ ConnectAttempt(t, "take")
    /\ UNCHANGED <<sbufVars, callVars, histVars, ctlVars, db_up, retry_queue,
                   processing_retry_item, db_rows, frames, extVars,
                   exit_status>>

\* interruptible_sleep(DB_CONNECT_RETRY_DELAY_SEC) lasts SleepQuanta sleeps
\* of SHORT_SLEEP_MS.
SleepQuanta == 2

\* Mutant of SleepsAfter: every failed attempt is followed by the delay.
SleepsAfterEvery(n) == TRUE

\* storagemgt_run, lines 113 and 167: the delay follows the n-th failed
\* attempt unless it was the last one.
SleepsAfter(n) == n < DB_CONNECT_RETRY_ATTEMPTS

\* One pass of a connect loop from its condition (lines 98-117, 149-171) or,
\* when the condition fails with no connection, what follows the loop (lines
\* 119-138, 172-190).  A pass ends at the loop condition again, in
\* interruptible_sleep, behind the loop at `connected`, or at the cleanup.
ConnectPass(t, connected, sleep) ==
    IF ~(retry_count < DB_CONNECT_RETRY_ATTEMPTS)
    THEN /\ fatal_logged' = TRUE
         /\ KillParent
         /\ Goto(t, "done")
         /\ UNCHANGED <<db_connected, retry_count, connVars>>
    ELSE IF terminate_flag
    THEN /\ Goto(t, "done")
         /\ UNCHANGED <<db_connected, retry_count, fatal_logged,
                        parent_signalled, signal_pending, connVars>>
    ELSE IF db_up
    THEN /\ db_connected' = TRUE
         /\ conn_events' = Append(conn_events, "ok")
         /\ Goto(t, connected)
         /\ UNCHANGED <<retry_count, fatal_logged, parent_signalled,
                        signal_pending, sleep_left>>
    ELSE /\ retry_count' = retry_count + 1
         /\ IF SleepsAfter(retry_count + 1)
            THEN /\ conn_events' = conn_events \o <<"fail", "sleep">>
                 /\ sleep_left' = SleepQuanta
                 /\ Goto(t, sleep)
            ELSE /\ conn_events' = Append(conn_events, "fail")
                 /\ UNCHANGED <<loc, sleep_left>>
         /\ UNCHANGED <<db_connected, fatal_logged, parent_signalled,
                        signal_pending>>

\* storagemgt_run, lines 98-138, pass by pass
StorageConnectPass(t) ==
    /\ t = "storagemgt"
    /\ loc[t] = "connect"
    /\ ConnectPass(t, "loop", "connect_sleep")
    /\ UNCHANGED <<sbufVars, callVars, histVars, ctlVars, db_up, retry_queue,
                   processing_retry_item, db_rows, frames, extButConn,
                   exit_status>>

\* storagemgt_run, lines 149-190, pass by pass
StorageReconnectPass(t) ==
    /\ t = "storagemgt"
    /\ loc[t] = "reconnect"
    /\ ConnectPass(t, "take", "reconnect_sleep")
    /\ UNCHANGED <<sbufVars, callVars, histVars, ctlVars, db_up, retry_queue,
                   processing_retry_item, db_rows, frames, extButConn,
                   exit_status>>

\* The loop a sleep of Storage was called from.
SleepOf == [connect_sleep |-> "connect", reconnect_sleep |-> "reconnect"]
NanosleepOf == [connect_sleep |-> "connect_nanosleep",
                reconnect_sleep |-> "reconnect_nanosleep"]

\* Mutant of StorageSleepTest: the sleep lasts until end_time whatever
\* terminate_flag is.
StorageSleepToTheEnd(t) ==
    /\ t = "storagemgt"
    /\ loc[t] \in DOMAIN SleepOf
    /\ IF sleep_left > 0
       THEN /\ Goto(t, NanosleepOf[loc[t]])
            /\ UNCHANGED sleep_left
       ELSE /\ Goto(t, SleepOf[loc[t]])
            /\ sleep_left' = 0
    /\ UNCHANGED <<sbufVars, callVars, histVars, ctlVars, db_up, storVars,
                   frames, extButConn, conn_events, procVars>>

\* interruptible_sleep, line 317: the condition of its loop; nanosleep is
\* called, or the function returns to the connect loop.
StorageSleepTest(t) ==
    /\ t = "storagemgt"
    /\ loc[t] \in DOMAIN SleepOf
    /\ IF sleep_left > 0 /\ ~terminate_flag
       THEN /\ Goto(t, NanosleepOf[loc[t]])
            /\ UNCHANGED sleep_left
       ELSE /\ Goto(t, SleepOf[loc[t]])
            /\ sleep_left' = 0
    /\ UNCHANGED <<sbufVars, callVars, histVars, ctlVars, db_up, storVars,
                   frames, extButConn, conn_events, procVars>>

\* interruptible_sleep, lines 318-329: nanosleep returns after
\* SHORT_SLEEP_MS; the loop goes on.
StorageNanosleep(t) ==
    /\ t = "storagemgt"
    /\ \E s \in DOMAIN NanosleepOf :
          /\ loc[t] = NanosleepOf[s]
          /\ Goto(t, s)
    /\ sleep_left' = sleep_left - 1
    /\ UNCHANGED <<sbufVars, callVars, histVars, ctlVars, db_up, storVars,
                   frames, extButConn, conn_events, procVars>>

\* Mutant of StorageLoop: the loop goes on without a reconnect.
StorageLoopNoReconnect(t) ==
    /\ t = "storagemgt"
    /\ loc[t] = "loop"
    /\ Goto(t, "take")
    /\ UNCHANGED <<sbufVars, callVars, histVars, ctlVars, db_up, storVars,
                   frames, extVars, procVars>>

\* storagemgt_run, lines 141-148: the head of the main loop; terminate_flag
\* is not looked at here.
StorageLoop(t) ==
    /\ t = "storagemgt"
    /\ loc[t] = "loop"
    /\ IF db_connected
       THEN /\ Goto(t, "take")
            /\ UNCHANGED <<retry_count, conn_events>>
       ELSE /\ Goto(t, "reconnect")
            /\ retry_count' = 0
            /\ conn_events' = <<>>
    /\ UNCHANGED <<sbufVars, callVars, histVars, ctlVars, db_up, db_connected,
                   retry_queue, processing_retry_item, db_rows, frames,
                   fatal_logged, parent_signalled, extButConn, sleep_left,
                   procVars>>

\* Mutant of StorageTake: sbuffer_remove is called whatever the retry queue
\* holds.
StorageTakeFromBuffer(t) ==
    /\ t = "storagemgt"
    /\ loc[t] = "take"
    /\ processing_retry_item' = FALSE
    /\ Calls(t, "rem_lock")
    /\ Goto(t, "remove")
    /\ UNCHANGED <<sbufVars, data, histVars, ctlVars, db_up, db_connected,
                   retry_count, retry_queue, db_rows, frames, fatal_logged,
                   parent_signalled, extVars, procVars>>

\* storagemgt_run, lines 194-209: the head of the retry queue is taken first,
\* else sbuffer_remove is called.
StorageTake(t) ==
    /\ t = "storagemgt"
    /\ loc[t] = "take"
    /\ IF retry_queue # <<>>
       THEN /\ processing_retry_item' = TRUE
            /\ data' = [data EXCEPT ![t] = Head(retry_queue)]
            /\ Goto(t, "db_insert")
            /\ UNCHANGED <<pc, ret>>
       ELSE /\ processing_retry_item' = FALSE
            /\ Calls(t, "rem_lock")
            /\ Goto(t, "remove")
            /\ UNCHANGED data
    /\ UNCHANGED <<sbufVars, histVars, ctlVars, db_up, db_connected,
                   retry_count, retry_queue, db_rows, frames, fatal_logged,
                   parent_signalled, extVars, procVars>>

\* storagemgt_run, lines 211-227: the sentinel ends the loop
StorageRemoved(t) ==
    /\ t = "storagemgt"
    /\ Returned(t, "remove")
    /\ Goto(t, IF ret[t] = SBUFFER_SHUTDOWN THEN "done" ELSE "db_insert")
    /\ UNCHANGED <<sbufVars, callVars, histVars, ctlVars, db_up, storVars,
                   frames, extVars, procVars>>

\* enqueue_retry_item, lines 397-419: the oldest item is dropped when the
\* queue is full.
EnqueueDropsNew(q, r) ==
    q

enqueue_retry_item(q, r) ==
    IF Len(q) >= RETRY_QUEUE_INITIAL_CAPACITY
    THEN Append(Tail(q), r)
    ELSE Append(q, r)

\* storagemgt_run, lines 230-267: the insert.  Success: a row; an item of
\* the retry queue is dequeued.  Failure: the connection counts as lost and
\* a reading that came from the buffer is put on the retry queue.
StorageInsert(t) ==
    /\ t = "storagemgt"
    /\ loc[t] = "db_insert"
    /\ IF db_up
       THEN /\ db_rows' = Append(db_rows, data[t])
            /\ retry_queue' = IF processing_retry_item
                              THEN Tail(retry_queue)
                              ELSE retry_queue
            /\ UNCHANGED db_connected
       ELSE /\ db_connected' = FALSE
            /\ retry_queue' = IF processing_retry_item
                              THEN retry_queue
                              ELSE enqueue_retry_item(retry_queue, data[t])
            /\ UNCHANGED db_rows
    /\ Goto(t, "loop")
    /\ UNCHANGED <<sbufVars, callVars, histVars, ctlVars, db_up, retry_count,
                   processing_retry_item, frames, fatal_logged,
                   parent_signalled, extVars, procVars>>

\* --- main.c -----------------------------------------------------------
\* SIGINT or SIGTERM is sent to the gateway process from outside, at any
\* time; both are blocked in every thread (main.c:89-95) and stay pending.
SignalSent ==
    /\ ~signal_pending
    /\ loc["main"] = "sigwait"
    /\ signal_pending' = TRUE
    /\ UNCHANGED <<sbufVars, callVars, histVars, loc, ctlVars, db_up,
                   storVars, frames, extVars, exit_status>>

\* main, lines 269-277: sigwaitinfo returns with the pending SIGINT or
\* SIGTERM and terminate_flag is set.
MainSignal(t) ==
    /\ t = "main"
    /\ loc[t] = "sigwait"
    /\ signal_pending
    /\ signal_pending' = FALSE
    /\ terminate_flag' = TRUE
    /\ Goto(t, "stop")
    /\ UNCHANGED <<sbufVars, callVars, histVars, stop_requested, db_up,
                   storVars, frames, extVars, exit_status>>

\* main, lines 285-315: conmgt_stop (stop_requested, the byte in the pipe),
\* the stop functions that only log, then sbuffer_signal_shutdown is called.
MainStop(t) ==
    /\ t = "main"
    /\ loc[t] = "stop"
    /\ stop_requested' = TRUE
    /\ Calls(t, "sd_lock")
    /\ nShutdownCalls' = nShutdownCalls + 1
    /\ Goto(t, "join")
    /\ UNCHANGED <<sbufVars, data, inserted, removed, nInsertCalls,
                   terminate_flag, db_up, storVars, frames, extVars,
                   procVars>>

\* main, lines 321-405: the four joins, the cleanup and the return
MainJoin(t) ==
    /\ t = "main"
    /\ Returned(t, "join")
    /\ \A w \in Producers \cup Consumers : loc[w] = "done"
    /\ Goto(t, "exited")
    /\ exit_status' = IF terminate_flag THEN EXIT_FAILURE ELSE EXIT_SUCCESS
    /\ UNCHANGED <<sbufVars, callVars, histVars, ctlVars, db_up, storVars,
                   frames, extVars, signal_pending>>

\* The threads as main() starts them.
InitGateway ==
    /\ SbufferInit
    /\ ClientInit(Threads)
    /\ GatewayInit([t \in Threads |->
                       CASE t = "conmgt" -> "select"
                         [] t = "datamgt" -> "loop"
                         [] t = "storagemgt" -> "connect"
                         [] OTHER -> "sigwait"])

NextGateway ==
    \/ \E t \in Threads :
        \/ ConmgtFrame(t) \/ ConmgtInserted(t) \/ ConmgtExit(t)
        \/ DatamgtLoop(t) \/ DatamgtRemoved(t)
        \/ StorageConnect(t) \/ StorageReconnect(t) \/ StorageLoop(t)
        \/ StorageTake(t) \/ StorageRemoved(t) \/ StorageInsert(t)
        \/ MainSignal(t) \/ MainStop(t) \/ MainJoin(t)
        \/ InsertLock(t) \/ InsertCheck(t) \/ InsertWake(t) \/ InsertLoop(t)
        \/ RemoveLock(t) \/ RemoveCheck(t) \/ RemoveWake(t)
        \/ RemoveRecheck(t)
        \/ ShutdownLock(t) \/ ShutdownSet(t)
        \/ SpuriousWakeup(t)
    \/ DbFails
    \/ DbRecovers
    \/ SignalSent

SpecGateway == InitGateway /\ [][NextGateway]_vars

\* The gateway with the connect loops of Storage taken pass by pass and
\* their back-off sleep by sleep.
NextStorage ==
    \/ \E t \in Threads :
        \/ ConmgtFrame(t) \/ ConmgtInserted(t) \/ ConmgtExit(t)
        \/ DatamgtLoop(t) \/ DatamgtRemoved(t)
        \/ StorageConnectPass(t) \/ StorageReconnectPass(t)
        \/ StorageSleepTest(t) \/ StorageNanosleep(t)
        \/ StorageLoop(t)
        \/ StorageTake(t) \/ StorageRemoved(t) \/ StorageInsert(t)
        \/ MainSignal(t) \/ MainStop(t) \/ MainJoin(t)
        \/ InsertLock(t) \/ InsertCheck(t) \/ InsertWake(t) \/ InsertLoop(t)
        \/ RemoveLock(t) \/ RemoveCheck(t) \/ RemoveWake(t)
        \/ RemoveRecheck(t)
        \/ ShutdownLock(t) \/ ShutdownSet(t)
        \/ SpuriousWakeup(t)
    \/ DbFails
    \/ DbRecovers
    \/ SignalSent

SpecStorage == InitGateway /\ [][NextStorage]_vars

\* The same with the Storage thread scheduled again and again while it is
\* in a connect loop: a running thread returns from nanosleep and goes on.
FairSpecStorage ==
    /\ InitGateway
    /\ [][NextStorage]_vars
    /\ WF_vars(\/ StorageConnectPass("storagemgt")
               \/ StorageReconnectPass("storagemgt")
               \/ StorageSleepTest("storagemgt")
               \/ StorageNanosleep("storagemgt"))

\* The components that do not use the buffer start with one of capacity 1.
InitExt == Init /\ SBUFFER_SIZE = 1

\* Analytics alone, given any readings.
SpecAlerts == InitExt /\ [][NextAlerts]_vars

\* The client table of Ingress under any accepts, frames, closes, timeout
\* checks and clock ticks.
SpecClients == InitExt /\ [][NextClients]_vars
SpecIngress == InitExt /\ [][NextIngress]_vars
SpecLogger == InitExt /\ [][NextLogger]_vars
SpecSink == InitExt /\ [][NextSink]_vars
SpecStartup == InitExt /\ [][NextStartup]_vars
SpecAdmin == InitExt /\ [][NextAdmin]_vars
SpecScan == InitExt /\ [][NextScan]_vars
SpecLocks == InitExt /\ [][NextLocks]_vars
\* main and the lives of its threads, whatever the threads do.
SpecMain == InitExt /\ [][NextMain]_vars
SpecRecords == InitExt /\ [][NextRecords]_vars
SpecTable == InitExt /\ [][NextTable]_vars
SpecRing == InitExt /\ [][NextRing]_vars
\* main and the Ingress thread run, a call of conmgt_stop returns; nobody
\* is forced to send a signal, and no peer is forced to act.
FairSpecStartup ==
    /\ SpecStartup
    /\ WF_vars(StartMain)
    /\ WF_vars(StartStop)
    /\ WF_vars(boot_pc \in {"sigwait", "stop"} /\ ConmgtThread)
\* The Ingress thread runs, and a call of conmgt_stop that began returns;
\* nobody is forced to call conmgt_stop, and no peer is forced to act.
FairSpecIngress ==
    SpecIngress /\ WF_vars(ConmgtThread) /\ WF_vars(StopStep)

(***************************************************************************)
(* Fair scheduling: a thread inside a buffer operation eventually takes    *)
(* its next step, and a thread that needs the mutex gets it when it is     *)
(* free again and again (strong fairness).  Calls are not forced.          *)
(***************************************************************************)
Step(t) ==
    \/ InsertLock(t) \/ InsertCheck(t) \/ InsertWake(t) \/ InsertLoop(t)
    \/ RemoveLock(t) \/ RemoveCheck(t) \/ RemoveWake(t) \/ RemoveRecheck(t)
    \/ ShutdownLock(t) \/ ShutdownSet(t)

Fairness == \A t \in Threads : SF_vars(Step(t))

FairSpec == Init /\ [][Next]_vars /\ Fairness

\* The steps of the thread functions that need nothing from outside (a
\* frame arriving and a signal being sent are not among them).
GatewayStep(t) ==
    \/ ConmgtInserted(t) \/ ConmgtExit(t)
    \/ DatamgtLoop(t) \/ DatamgtRemoved(t)
    \/ StorageConnect(t) \/ StorageReconnect(t) \/ StorageLoop(t)
    \/ StorageTake(t) \/ StorageRemoved(t) \/ StorageInsert(t)
    \/ MainStop(t) \/ MainJoin(t)

\* The gateway under fair scheduling: every thread that can take a step of
\* its function eventually takes it, and the buffer operations are
\* scheduled as above.
FairSpecGateway ==
    /\ InitGateway
    /\ [][NextGateway]_vars
    /\ \A t \in Threads : WF_vars(GatewayStep(t)) /\ SF_vars(Step(t))

\* The buffer while no shutdown is signalled, under fair scheduling, with
\* the Analytics consumer calling sbuffer_remove again and again.
FairSpecRunning ==
    /\ Init
    /\ [][NextRunning]_vars
    /\ Fairness
    /\ WF_vars(RemoveCall("datamgt"))

(***************************************************************************)
(* Auxiliary definitions for the properties.                               *)
(***************************************************************************)
IsPrefix(s, t) == Len(s) <= Len(t) /\ SubSeq(t, 1, Len(s)) = s

\* The positions at which a thread runs the body of remove holding the mutex.
RemovePositions == {"rem_check", "rem_recheck"}
\* The positions at which a thread runs the body of insert holding the mutex.
InsertPositions == {"ins_check", "ins_while"}

InsertReturns(p, r) ==
    pc[p] \in InsertPositions /\ pc'[p] = "idle" /\ ret'[p] = r
RemoveReturns(c, r) ==
    pc[c] \in RemovePositions /\ pc'[c] = "idle" /\ ret'[c] = r

(***************************************************************************)
(* C1: with one producer and one consumer, on a buffer of capacity 1 as    *)
(* well as of a larger capacity, the readings returned by the removes are  *)
(* a prefix of the readings of the successful inserts, in order, and once  *)
(* the buffer is drained they are exactly those readings.                  *)
(***************************************************************************)
C1_FifoOneConsumer ==
    /\ IsPrefix(removed["datamgt"], inserted)
    /\ count = 0 => removed["datamgt"] = inserted

C1_Witness ==
    /\ SBUFFER_SIZE = 1
    /\ Len(inserted) = MaxInserts
    /\ removed["datamgt"] = inserted
    /\ pc["storagemgt"] = "off"

(***************************************************************************)
(* C3: in every reachable state 0 <= count <= SBUFFER_SIZE, head and tail  *)
(* lie in 0..SBUFFER_SIZE-1 and head = (tail + count) mod SBUFFER_SIZE.    *)
(***************************************************************************)
C3_BufferInvariant ==
    /\ count \in 0..SBUFFER_SIZE
    /\ head \in 0..(SBUFFER_SIZE - 1)
    /\ tail \in 0..(SBUFFER_SIZE - 1)
    /\ head = (tail + count) % SBUFFER_SIZE

C3_Witness ==
    /\ SBUFFER_SIZE = 2
    /\ count = SBUFFER_SIZE
    /\ head = 1
    /\ tail = 1
    /\ shutdown_flag

(***************************************************************************)
(* C4: remove returns the sentinel only when the flag is set and the       *)
(* buffer is empty; a remover that holds the mutex while the buffer holds  *)
(* a reading returns the reading at tail with success, also after          *)
(* signal_shutdown; a remover woken with the buffer empty and no shutdown  *)
(* waits again.                                                            *)
(***************************************************************************)
C4_RemoveContract ==
    [][\A c \in Consumers :
        /\ RemoveReturns(c, SBUFFER_SHUTDOWN) =>
               shutdown_flag /\ count = 0 /\ removed' = removed
        /\ (pc[c] \in RemovePositions /\ pc'[c] # pc[c] /\ count > 0) =>
               /\ RemoveReturns(c, GATEWAY_SUCCESS)
               /\ data'[c] = buffer[tail]
               /\ removed'[c] = Append(removed[c], buffer[tail])
               /\ count' = count - 1
        /\ (pc[c] = "rem_recheck" /\ pc'[c] # pc[c]
                /\ count = 0 /\ ~shutdown_flag) =>
               pc'[c] = "rem_wait" /\ c \in not_empty'
      ]_vars

C4_Witness ==
    \E c \in Consumers : pc[c] = "rem_recheck" /\ shutdown_flag /\ count > 0

(***************************************************************************)
(* C8: the shutdown flag never goes back to false, and a call of           *)
(* signal_shutdown made when the flag is already set leaves head, tail,    *)
(* count, the stored readings and the flag as they are.                    *)
(***************************************************************************)
C8_ShutdownIdempotent ==
    [][/\ shutdown_flag => shutdown_flag'
       /\ \A t \in Shutters :
            (pc[t] = "sd_set" /\ pc'[t] = "idle" /\ shutdown_flag) =>
                UNCHANGED <<head, tail, count, buffer, shutdown_flag>>
      ]_vars

C8_Witness ==
    /\ nShutdownCalls = 2
    /\ pc["main"] = "idle"
    /\ shutdown_flag
    /\ count > 0


\* How often reading r occurs in sequence s.
Occurrences(s, r) == Cardinality({i \in 1..Len(s) : s[i] = r})

\* Everything any consumer got from the buffer.
RemovedAll == removed["datamgt"] \o removed["storagemgt"]

\* Every consumer has received the shutdown sentinel from its last remove.
ConsumersGotSentinel ==
    \A c \in Consumers : pc[c] = "idle" /\ ret[c] = SBUFFER_SHUTDOWN

(***************************************************************************)
(* C2: with one producer and two consumers, every reading of a successful  *)
(* insert is returned by at most one remove, and by exactly one once the   *)
(* consumers have called remove until they received the sentinel.          *)
(***************************************************************************)
C2_ExactlyOneConsumer ==
    /\ \A i \in 1..Len(RemovedAll) :
           /\ Occurrences(RemovedAll, RemovedAll[i]) = 1
           /\ Occurrences(inserted, RemovedAll[i]) = 1
    /\ ConsumersGotSentinel =>
           \A i \in 1..Len(inserted) : Occurrences(RemovedAll, inserted[i]) = 1

(***************************************************************************)
(* C5: insert blocks only until capacity is available or shutdown is       *)
(* signalled: a producer that evaluates the wait loop with the flag set    *)
(* returns the sentinel without appending, and no insert returns success   *)
(* once the flag is set.                                                   *)
(***************************************************************************)
C5_InsertHonoursShutdown ==
    [][\A p \in Producers :
        /\ InsertReturns(p, GATEWAY_SUCCESS) => ~shutdown_flag
        /\ (pc[p] \in InsertPositions /\ pc'[p] # pc[p] /\ shutdown_flag) =>
               InsertReturns(p, SBUFFER_SHUTDOWN) /\ inserted' = inserted
      ]_vars

(***************************************************************************)
(* C6: under fair scheduling, once the shutdown flag is set every thread   *)
(* that is inside sbuffer_insert or sbuffer_remove eventually returns.     *)
(***************************************************************************)
C6_ShutdownUnblocks ==
    \A t \in Producers \cup Consumers :
        (shutdown_flag /\ pc[t] # "idle") ~> (pc[t] = "idle")


(***************************************************************************)
(* C7: while the shutdown flag is unset and scheduling is fair, no wake-up *)
(* is lost, also with two consumers waiting on not_empty: a reading does   *)
(* not stay in the buffer while a consumer stays blocked, every reading    *)
(* of a successful insert is eventually removed when a consumer keeps      *)
(* calling remove, and a producer blocked on a full buffer then            *)
(* eventually succeeds.                                                    *)
(***************************************************************************)
C7_NoLostWakeup ==
    /\ \A c \in Consumers :
           (pc[c] = "rem_wait" /\ count > 0)
               ~> (pc[c] # "rem_wait" \/ count = 0)
    /\ \A k \in 1..MaxInserts :
           (Len(inserted) >= k) ~> (Len(RemovedAll) >= k)
    /\ \A p \in Producers :
           (pc[p] = "ins_wait")
               ~> (pc[p] = "idle" /\ ret[p] = GATEWAY_SUCCESS)

C7_Witness ==
    /\ pc["datamgt"] = "rem_woken"
    /\ pc["storagemgt"] = "rem_wait"
    /\ pc["conmgt"] = "ins_wait"
    /\ count > 0
    /\ ~shutdown_flag

(***************************************************************************)
(* The gateway: who gets a reading.                                        *)
(***************************************************************************)
Range(s) == {s[i] : i \in 1..Len(s)}

\* The readings stored in the buffer.
Buffered == {buffer[(tail + i) % SBUFFER_SIZE] : i \in 0..(count - 1)}

\* Reading r is still on its way to the database: Ingress holds it in a call
\* of sbuffer_insert, it is in the buffer, or Storage holds it (as the item
\* it is about to insert, or in its retry queue).
OnItsWayToDatabase(r) ==
    \/ loc["conmgt"] = "insert" /\ pc["conmgt"] # "idle" /\ data["conmgt"] = r
    \/ r \in Buffered
    \/ loc["storagemgt"] = "remove" /\ pc["storagemgt"] = "idle"
           /\ ret["storagemgt"] = GATEWAY_SUCCESS /\ data["storagemgt"] = r
    \/ loc["storagemgt"] = "db_insert" /\ data["storagemgt"] = r
    \/ r \in Range(retry_queue)

\* C9: each consumer sees every reading.  A reading Ingress inserted with
\* success has been returned to Analytics and to Storage, or it is still in
\* the buffer, where the consumer that has not seen it yet can get it (a
\* reading that is neither can never be processed by that consumer).
C9_EachConsumerSeesEveryReading ==
    \A i \in 1..Len(inserted) : \A c \in Consumers :
        inserted[i] \in Range(removed[c]) \/ inserted[i] \in Buffered

\* C10: every valid frame read from a sensor socket gets exactly one row in
\* the database, unless the database failed for good and a FATAL entry was
\* logged.  A frame has at most one row, and a frame without a row is still
\* on its way to the database (one that is not can never get its row).
C10_OneRowPerFrame ==
    \A k \in 1..Len(frames) :
        /\ Occurrences(db_rows, frames[k]) <= 1
        /\ \/ Occurrences(db_rows, frames[k]) = 1
           \/ OnItsWayToDatabase(frames[k])
           \/ fatal_logged

\* C17: within the Storage path the rows are the readings Storage removed
\* from the buffer, in removal order and each at most once (the rows are a
\* prefix of the removal sequence).  A reading whose insert failed is kept:
\* while Storage runs, the removed readings are the rows, then the retry
\* queue, then at most the one reading Storage holds; once Storage has
\* reconnected and emptied the retry queue, every reading it removed is a row.
C17_StorageOrder ==
    LET S == "storagemgt"
        kept == db_rows \o retry_queue
    IN  /\ IsPrefix(db_rows, removed[S])
        /\ loc[S] # "done" =>
               /\ IsPrefix(kept, removed[S])
               /\ Len(removed[S]) <= Len(kept) + 1
        /\ loc[S] \in {"loop", "reconnect", "take"} => kept = removed[S]
        /\ (loc[S] = "take" /\ retry_queue = <<>>) => db_rows = removed[S]

\* Storage removed two readings; the insert of the second failed, and after
\* the reconnect it was taken from the retry queue and became the second row.
C17_Witness ==
    /\ loc["storagemgt"] = "loop"
    /\ db_connected
    /\ retry_queue = <<>>
    /\ Len(removed["storagemgt"]) = 2
    /\ db_rows = removed["storagemgt"]
    /\ db_rows[1].ts < db_rows[2].ts
    /\ processing_retry_item

(***************************************************************************)
(* Analytics: the alert state machine.                                     *)
(***************************************************************************)
RECURSIVE SelectSeq2(_, _, _)
\* The elements x of s[1..n] with x.id = id, in order.
SelectSeq2(s, n, id) ==
    IF n = 0 THEN <<>>
    ELSE IF s[n].id = id THEN Append(SelectSeq2(s, n - 1, id), s[n])
    ELSE SelectSeq2(s, n - 1, id)

RECURSIVE SumValues(_, _)
SumValues(s, n) == IF n = 0 THEN 0 ELSE SumValues(s, n - 1) + s[n].value

\* The classification of the running average of the first n readings.
Classification(s, n) ==
    IF SumValues(s, n) < 15 * n THEN "TOO_COLD"
    ELSE IF SumValues(s, n) > 30 * n THEN "TOO_HOT"
    ELSE "NORMAL"

RECURSIVE MachineRun(_, _)
\* The state machine run over the first n readings of one sensor, starting
\* from NORMAL: its state and the lines it emitted.
MachineRun(s, n) ==
    IF n = 0 THEN [state |-> "NORMAL", lines |-> <<>>]
    ELSE LET prev == MachineRun(s, n - 1)
             cls == Classification(s, n)
         IN  IF cls = prev.state THEN prev
             ELSE [state |-> cls,
                   lines |-> Append(prev.lines,
                       [level |-> IF cls = "NORMAL" THEN "INFO" ELSE "WARNING",
                        state |-> cls])]

AlertLinesOf(id) ==
    LET l == SelectSeq2(alert_log, Len(alert_log), id)
    IN  [i \in 1..Len(l) |-> [level |-> l[i].level, state |-> l[i].state]]

ReadingsOf(id) == SelectSeq2(analysed, Len(analysed), id)

\* C11: for every sensor id Analytics processed, the alert lines of the
\* sensor are exactly the lines of the state machine run from NORMAL over
\* the sensor's readings (a line exactly when the classification of the
\* running average differs from the last logged state, WARNING on entering
\* TOO_HOT or TOO_COLD, INFO on returning to NORMAL); no two consecutive
\* lines of a sensor name the same state, the first line is not NORMAL, and
\* the dropped sensor 0 has no line.
C11_AlertStateMachine ==
    /\ \A id \in AlertSensorIds \ {0} :
          LET l == AlertLinesOf(id) IN
          /\ l = MachineRun(ReadingsOf(id), Len(ReadingsOf(id))).lines
          /\ \A i \in 1..(Len(l) - 1) : l[i].state # l[i + 1].state
          /\ Len(l) > 0 => l[1].state # "NORMAL"
    /\ AlertLinesOf(0) = <<>>

\* Sensor 1 went from NORMAL to TOO_HOT, from there directly to TOO_COLD, and
\* its third reading left it TOO_COLD without a line.
C11_Witness ==
    /\ Len(ReadingsOf(1)) = 3
    /\ AlertLinesOf(1) = <<[level |-> "WARNING", state |-> "TOO_HOT"],
                           [level |-> "WARNING", state |-> "TOO_COLD"]>>

(***************************************************************************)
(* Ingress: the client table.                                              *)
(***************************************************************************)
\* The descriptors of the live records of peer ip.
LiveOf(cs, ip) ==
    {cs[i].socket_fd : i \in {j \in Slots : cs[j].socket_fd # -1
                                             /\ cs[j].client_ip = ip}}

LiveFds(cs) == {cs[i].socket_fd : i \in {j \in Slots : cs[j].socket_fd # -1}}

\* C12: in every reachable state at most MAX_CONNECTIONS_PER_IP live records
\* share a peer IP (each live record with its own open descriptor), and an
\* accept that finds that many live records of the IP closes the new socket
\* and adds no record.
C12_PerIpLimit ==
    /\ [](\A ip \in PeerIps :
            /\ Cardinality(LiveOf(client_sockets, ip)) <= MAX_CONNECTIONS_PER_IP
            /\ Cardinality(LiveOf(client_sockets, ip))
                   = Cardinality({i \in Slots :
                         /\ client_sockets[i].socket_fd # -1
                         /\ client_sockets[i].client_ip = ip}))
    /\ [][\A ip \in PeerIps :
            (Accept(ip) /\ Cardinality(LiveOf(client_sockets, ip))
                               >= MAX_CONNECTIONS_PER_IP)
                => /\ client_sockets' = client_sockets
                   /\ num_clients' = num_clients
                   /\ open_fds' = open_fds
                   /\ last_event' = "rejected"]_vars

\* A connection of an IP that holds its limit of live records was rejected
\* after a compaction moved one of its records.
C12_Witness ==
    /\ last_event = "rejected"
    /\ \E ip \in PeerIps :
           /\ Cardinality(LiveOf(client_sockets, ip)) = MAX_CONNECTIONS_PER_IP
           /\ \E i \in Slots : /\ client_sockets[i].client_ip = ip
                               /\ client_sockets[i].socket_fd > i + 1
    /\ num_clients = MAX_CONNECTIONS

C14_ShutdownCompletes ==
    terminate_flag ~> (loc["main"] = "exited")

\* C15: the gateway exits with status 0 after an orderly shutdown triggered
\* by SIGINT or SIGTERM, and with a non-zero status when the shutdown was
\* forced by storage exhaustion (Storage gave up on the database, FATAL).
C15_ExitStatus ==
    loc["main"] = "exited" =>
        IF fatal_logged THEN exit_status # 0 ELSE exit_status = 0

\* C16: when every connection attempt of a startup or reconnect cycle has
\* failed, the step of Storage that logs FATAL delivers a termination signal
\* to the gateway process itself (so that main's sigwaitinfo returns).
C16_FatalStopsGateway ==
    [][(~fatal_logged /\ fatal_logged') => signal_pending']_vars


(***************************************************************************)
(* Ingress: conmgt_stop and the end of the thread.                         *)
(***************************************************************************)
\* C18: a call of conmgt_stop made at any point after the Ingress thread was
\* created, also while the thread is still creating its pipe and its
\* listening socket, makes the Ingress loop exit (once the call has returned
\* the thread returns, under fair scheduling); and when the thread has
\* returned no client record holds a descriptor, no client descriptor is
\* open and the listening socket is closed.
C18_StopEndsIngress ==
    /\ [](conmgt_pc = "returned" =>
             /\ LiveFds(client_sockets) = {}
             /\ open_fds = {}
             /\ server_sd = -1)
    /\ (stop_log # <<>> /\ stop_pc = "idle") ~> (conmgt_pc = "returned")

\* C19: a second call of stop() is safe: every call of conmgt_stop after the
\* first closes no descriptor and writes no byte to the shutdown pipe.
C19_SecondStopIsNoop ==
    \A k \in 2..Len(stop_log) : ~stop_log[k].closed /\ ~stop_log[k].wrote

(***************************************************************************)
(* Logging: the lines of the log file.                                     *)
(***************************************************************************)
\* The lines of the log file made of bytes that came through the FIFO (all
\* but the first and the last line of the log process)
RecordLines == SelectSeq(log_file, LAMBDA l : l.kind # "sink")

\* The bytes of a record before its newline
Body(r) == SubSeq(r, 1, Len(r) - 1)

\* C20: the records of one thread reach the log file in the order of its
\* log calls, and records are never mixed byte-wise: the k-th line made from
\* the FIFO is exactly the k-th record written to the FIFO (one whole record
\* of one log call, numbered k), and the records of a thread were written
\* to the FIFO in the order of its calls.
C20_OneRecordPerLine ==
    /\ Len(RecordLines) <= Len(written)
    /\ \A k \in 1..Len(RecordLines) :
           /\ RecordLines[k].kind = "record"
           /\ RecordLines[k].text = Body(written[k])
           /\ RecordLines[k].seq = k
    /\ \A i, j \in 1..Len(written) :
           (i < j /\ written[i][1].of[1] = written[j][1].of[1])
               => written[i][1].of[2] < written[j][1].of[2]

\* Lines of both threads are in the file, the second record of a thread
\* after its first, while a record that a read cut in two waits in the
\* assembly buffer for its end.
C20_Witness ==
    /\ assembly_buffer # <<>>
    /\ Len(RecordLines) >= 3
    /\ \A t \in LogThreads :
           \E k \in 1..Len(RecordLines) : RecordLines[k].text[1].of[1] = t

\* C21: when the log process has died, the gateway keeps running (no log
\* call ends the process), and the descriptor of the FIFO is closed exactly
\* once, also when several threads log at the same time.
C21_BrokenPipeDegrades ==
    /\ \A t \in LogThreads : log_pc[t] # "killed"
    /\ fd_closes <= 1

(***************************************************************************)
(* main: fatal failures at start-up.                                       *)
(***************************************************************************)
\* The Ingress thread gave up in its set-up: it could not bind or listen on
\* the port (conmgt.c:73-79).
IngressGaveUp ==
    conmgt_pc = "returned" /\ shutdown_pipe_fd = "closed"

\* C22: each fatal start-up failure (logger init, buffer init, failure to
\* bind the listening socket, failure to open the write end of the FIFO)
\* leads to termination of the gateway with a non-zero exit status, after
\* the rollback of what was set up, the forked log process included.
C22_StartupFailureExits ==
    /\ [](boot_pc = "failed" => exit_status > 0 /\ resources = {})
    /\ (boot_pc = "waitpid" \/ (IngressGaveUp /\ boot_pc = "sigwait"))
           ~> (boot_pc \in {"failed", "exited"} /\ exit_status > 0)

(***************************************************************************)
(* The admin socket.                                                       *)
(***************************************************************************)
\* C23: every connection accepted on the admin socket has received exactly
\* one response when the gateway closes it, whatever the client sent, and
\* the requests are handled one at a time (at most one accepted connection
\* is open).
C23_OneResponsePerConnection ==
    /\ \A k \in 1..Len(admin_conns) :
           admin_conns[k].state = "closed"
               => Len(admin_conns[k].responses) = 1
    /\ Cardinality({k \in 1..Len(admin_conns) :
                        admin_conns[k].state = "open"}) <= 1

(***************************************************************************)
(* Ingress: the client table and its mutex.                                *)
(***************************************************************************)
\* C24: the client table is touched only under conmgt_mutex: while the
\* Ingress thread is at a write to the table it holds the mutex, so the
\* admin thread, reading the rows under the mutex, never reads the record
\* that Ingress is modifying.
C24_TableUnderMutex ==
    /\ hcd_pc # "idle" => conmgt_mutex = "conmgt"
    /\ (stats_row \in Slots /\ hcd_pc # "idle") => hcd_call.i # stats_row

\* C27: a call of handle_client_data whose read returns an error, the end of
\* the stream or any size but that of one frame closes the record and calls
\* sbuffer_insert not at all; a read of one frame calls sbuffer_insert once
\* and leaves the record open in its slot.
C27_OnlyWholeFrames ==
    [][\A i \in Slots : \A bytes_received \in ReadSizes : \A id \in FrameIds :
         HandleClientData(i, bytes_received, id) =>
             LET fd == client_sockets[i].socket_fd IN
             /\ last_frame'.fd = fd
             /\ IF bytes_received = EXPECTED_PACKET_SIZE
                THEN /\ last_frame'.inserts = 1
                     /\ client_sockets'[i].socket_fd = fd
                     /\ fd \in open_fds'
                     /\ num_clients' = num_clients
                ELSE /\ last_frame'.inserts = 0
                     /\ fd \notin LiveFds(client_sockets')
                     /\ fd \notin open_fds'
                     /\ num_clients' = num_clients - 1]_vars

\* A record that had delivered a frame was closed on a read of a part of a
\* frame, and nothing was inserted.
C27_Witness ==
    /\ last_frame.bytes = EXPECTED_PACKET_SIZE - 1
    /\ last_frame.inserts = 0
    /\ last_frame.fd \notin open_fds
    /\ num_clients = 1
    /\ client_sockets[0].id_received

\* C28: a frame on a record whose id is not known logs the line "opened",
\* stores the id and sets the flag, and since no step clears the flag of a
\* record that stays, the line is logged once for a record; a frame with
\* another id than the stored one logs the line "id changed" and stores the
\* new id; either way the record stays open in its slot.  Every other record
\* that stays, moved by a compaction or not, keeps its flag and its id.
C28_SensorIdOfRecord ==
    /\ [][\A i \in Slots : \A id \in FrameIds :
            HandleClientData(i, EXPECTED_PACKET_SIZE, id) =>
                LET c == client_sockets[i] IN
                /\ client_sockets'[i] = [c EXCEPT !.last_active_ts = now,
                                                  !.id_received = TRUE,
                                                  !.sensor_id = id]
                /\ (last_frame'.log = "opened") = ~c.id_received
                /\ (last_frame'.log = "id changed")
                       = (c.id_received /\ c.sensor_id # id)]_vars
    /\ [][\A i, j \in Slots :
            (/\ client_sockets[i].socket_fd # -1
             /\ client_sockets'[j].socket_fd = client_sockets[i].socket_fd
             /\ ~\E id \in FrameIds :
                    HandleClientData(i, EXPECTED_PACKET_SIZE, id))
                => /\ client_sockets'[j].id_received
                       = client_sockets[i].id_received
                   /\ client_sockets'[j].sensor_id
                       = client_sockets[i].sensor_id]_vars

\* A record that a compaction had moved to a lower slot with its sensor id
\* has just logged a change of that id.
C28_Witness ==
    /\ last_frame.log = "id changed"
    /\ \E i \in Slots :
           /\ client_sockets[i].socket_fd = last_frame.fd
           /\ client_sockets[i].socket_fd > i + 1
           /\ client_sockets[i].id_received
           /\ client_sockets[i].sensor_id = 2

(***************************************************************************)
(* Storage: the retry queue at capacity.                                   *)
(***************************************************************************)
\* the items of the queue from the oldest to the newest
RingContents(q) ==
    [k \in 1..q.count |-> q.items[(q.head + k - 1) % q.capacity]]

\* the lines of level WARNING among the lines logged
Warnings(lines) == {k \in 1..Len(lines) : lines[k] = "WARNING"}

\* what an enqueue on a queue at capacity does to the queue
DropsOldest(r) ==
    /\ retry_ring'.count = retry_ring.capacity
    /\ RingContents(retry_ring')
           = Append(Tail(RingContents(retry_ring)), r)

\* C25 as stated: an enqueue on a retry queue at capacity discards the
\* oldest item and puts the new one at the tail, the count stays at the
\* capacity and the order of the others is kept, and one line of level
\* WARNING is logged for the discarded item.
C25_OneWarningPerDrop ==
    [][\A r \in RingItems :
         (RetryEnqueue(r) /\ retry_ring.count = retry_ring.capacity)
             => /\ DropsOldest(r)
                /\ Cardinality(Warnings(retry_log')) = 1]_vars

\* C25 amended: the same for the queue, with two lines of level WARNING for
\* the discarded item: one that the queue is full before the item is taken
\* out, one that names the item after.
C25_TwoWarningsPerDrop ==
    [][\A r \in RingItems :
         /\ (RetryEnqueue(r) /\ retry_ring.count = retry_ring.capacity)
                => /\ DropsOldest(r)
                   /\ retry_log' = <<"WARNING", "DEBUG", "WARNING", "DEBUG">>
         /\ (RetryEnqueue(r) /\ retry_ring.count < retry_ring.capacity)
                => /\ RingContents(retry_ring')
                          = Append(RingContents(retry_ring), r)
                   /\ Warnings(retry_log') = {}]_vars

\* An enqueue has just discarded the oldest item of a full queue whose head
\* was not at the start of the array: the items kept are 2 and 3 in the
\* order they had, then the new item 1.
C25_Witness ==
    /\ Cardinality(Warnings(retry_log)) = 2
    /\ retry_ring.count = retry_ring.capacity
    /\ retry_ring.head = 2
    /\ RingContents(retry_ring)[retry_ring.count] = 1
    /\ RingContents(retry_ring)[1] = 2

(***************************************************************************)
(* The gateway: the buffer at the end.                                     *)
(***************************************************************************)
\* C26: the shared buffer is drained before it is freed: when main has
\* joined the workers and frees the buffer, the buffer holds no reading and
\* every reading that sbuffer_insert stored has been removed by a consumer.
C26_DrainedBeforeFree ==
    loc["main"] = "exited" =>
        /\ count = 0
        /\ \A k \in 1..Len(inserted) :
               \E c \in Consumers :
                   \E j \in 1..Len(removed[c]) : removed[c][j] = inserted[k]

(***************************************************************************)
(* Analytics: the statistics of a sensor.                                  *)
(***************************************************************************)
\* the entry of sensor id in the list, or what stands for no entry
EntryOf(list, id) ==
    IF \E i \in 1..Len(list) : list[i].id = id
    THEN list[CHOOSE i \in 1..Len(list) : list[i].id = id]
    ELSE [id |-> id, total_value_sum |-> 0, reading_count |-> 0,
          last_logged_state |-> "none"]

ValuesOf(id) == [k \in 1..Len(ReadingsOf(id)) |-> ReadingsOf(id)[k].value]

\* C29: when Analytics has processed a reading of sensor s, the count of s
\* is one more and its sum is the old sum plus the value, and the last
\* logged state of s is the classification of sum / count with strict
\* comparisons: TOO_COLD exactly when the average is below 15, TOO_HOT
\* exactly when it is above 30, NORMAL otherwise, so an average equal to a
\* threshold is NORMAL.  The readings 35, 36, 10 of a sensor give TOO_HOT,
\* TOO_HOT, NORMAL with one WARNING and then one INFO.
C29_RunningAverage ==
    /\ [][\A id \in AlertSensorIds \ {INVALID_SENSOR_ID} :
          \A value \in AlertValues :
            DatamgtProcess(id, value) =>
                LET old == EntryOf(sensor_list, id)
                    new == EntryOf(sensor_list', id)
                    n == new.reading_count
                    sum == new.total_value_sum
                IN  /\ n = old.reading_count + 1
                    /\ sum = old.total_value_sum + value
                    /\ (new.last_logged_state = "TOO_COLD") = (sum < 15 * n)
                    /\ (new.last_logged_state = "TOO_HOT") = (sum > 30 * n)
                    /\ (new.last_logged_state = "NORMAL")
                           = (sum >= 15 * n /\ sum <= 30 * n)]_vars
    /\ [](\A id \in AlertSensorIds \ {INVALID_SENSOR_ID} :
            /\ ValuesOf(id) \in {<<35>>, <<35, 36>>}
                   => /\ EntryOf(sensor_list, id).last_logged_state = "TOO_HOT"
                      /\ AlertLinesOf(id)
                             = <<[level |-> "WARNING", state |-> "TOO_HOT"]>>
            /\ ValuesOf(id) = <<35, 36, 10>>
                   => /\ EntryOf(sensor_list, id).last_logged_state = "NORMAL"
                      /\ AlertLinesOf(id)
                             = <<[level |-> "WARNING", state |-> "TOO_HOT"],
                                 [level |-> "INFO", state |-> "NORMAL"]>>)

\* Sensor 2 sent 30, 30 and 31: the average was equal to the threshold twice
\* and nothing was logged, then it was above and the sensor is TOO_HOT.
C29_Witness ==
    /\ ValuesOf(2) = <<30, 30, 31>>
    /\ EntryOf(sensor_list, 2).total_value_sum = 91
    /\ EntryOf(sensor_list, 2).reading_count = 3
    /\ EntryOf(sensor_list, 2).last_logged_state = "TOO_HOT"
    /\ AlertLinesOf(2) = <<[level |-> "WARNING", state |-> "TOO_HOT"]>>

\* C30: a reading of sensor 0 is dropped: it makes no entry, changes the
\* entry of no sensor and logs no alert line; and a reading of sensor s
\* changes the entry of no other sensor and logs no line of another sensor.
C30_SensorsApart ==
    /\ [](\A i \in 1..Len(sensor_list) :
              sensor_list[i].id # INVALID_SENSOR_ID)
    /\ [][\A id \in AlertSensorIds : \A value \in AlertValues :
            DatamgtProcess(id, value) =>
                /\ id = INVALID_SENSOR_ID
                       => /\ sensor_list' = sensor_list
                          /\ alert_log' = alert_log
                /\ \A other \in AlertSensorIds \ {id} :
                       /\ EntryOf(sensor_list', other)
                              = EntryOf(sensor_list, other)
                       /\ AlertLinesOf(other)' = AlertLinesOf(other)]_vars

\* Analytics took a reading of sensor 1 that made it TOO_HOT, then one of
\* sensor 0, then one of sensor 2 that made it TOO_COLD; sensor 1 is as it
\* was.
C30_Witness ==
    /\ Len(analysed) = 3
    /\ analysed[1] = [id |-> 1, value |-> 31]
    /\ analysed[2].id = INVALID_SENSOR_ID
    /\ analysed[3] = [id |-> 2, value |-> 14]
    /\ Len(sensor_list) = 2
    /\ EntryOf(sensor_list, 1).last_logged_state = "TOO_HOT"
    /\ EntryOf(sensor_list, 1).reading_count = 1
    /\ Len(alert_log) = 2

(***************************************************************************)
(* Storage: the database connection.                                       *)
(***************************************************************************)
\* C31: an insert that failed marks the connection lost; while it is lost,
\* Storage is at no insert and in no sbuffer_remove, and the reading whose
\* insert failed is the head of the retry queue; the first row written
\* while the retry queue is not empty, so the first after the reconnect, is
\* that head.
C31_ReconnectBeforeInsert ==
    /\ [](LET t == "storagemgt" IN
          /\ loc[t] \in {"db_insert", "remove"} => db_connected
          /\ (loc[t] \in {"loop", "reconnect"} /\ ~db_connected)
                 => /\ retry_queue # <<>>
                    /\ Head(retry_queue) = data[t])
    /\ [][(StorageInsert("storagemgt") /\ ~db_up) => ~db_connected']_vars
    /\ [][(db_rows' # db_rows /\ retry_queue # <<>>)
              => db_rows' = Append(db_rows, Head(retry_queue))]_vars

\* The insert of the second reading failed after the first had been
\* written; the connection is lost, Storage is reconnecting, the reading
\* heads the retry queue.
C31_Witness ==
    /\ loc["storagemgt"] = "reconnect"
    /\ ~db_connected
    /\ Len(db_rows) = 1
    /\ retry_queue = <<data["storagemgt"]>>
    /\ data["storagemgt"].ts = 2

\* The failed attempts among the first n events of a connection cycle.
FailsIn(ev, n) == Cardinality({i \in 1..n : ev[i] = "fail"})

\* The positions of Storage inside a connect loop.
Backoff == {"connect_sleep", "connect_nanosleep", "reconnect_sleep",
            "reconnect_nanosleep"}
InCycle == {"connect", "reconnect"} \cup Backoff

\* C32: in a connection cycle there are at most DB_CONNECT_RETRY_ATTEMPTS
\* calls of db_connect and none after one that succeeded; the delay is
\* called after a failed attempt that is not the
\* DB_CONNECT_RETRY_ATTEMPTS-th, after each of these, and nowhere else, and
\* it is followed by the next attempt unless Storage left on terminate_flag;
\* the counter is the number of failed attempts of the cycle and a
\* reconnect cycle starts with it at zero.
C32_ConnectCycle ==
    /\ [](LET ev == conn_events
              t == "storagemgt" IN
          /\ Cardinality({i \in 1..Len(ev) : ev[i] # "sleep"})
                 <= DB_CONNECT_RETRY_ATTEMPTS
          /\ retry_count = FailsIn(ev, Len(ev))
          /\ \A i \in 1..Len(ev) :
               /\ ev[i] = "ok" => i = Len(ev)
               /\ ev[i] = "sleep"
                      => /\ i > 1 /\ ev[i - 1] = "fail"
                         /\ FailsIn(ev, i) < DB_CONNECT_RETRY_ATTEMPTS
                         /\ i = Len(ev)
                                => \/ loc[t] \in InCycle
                                   \/ loc[t] = "done" /\ terminate_flag
               /\ ev[i] = "fail"
                      => IF FailsIn(ev, i) < DB_CONNECT_RETRY_ATTEMPTS
                         THEN i < Len(ev) /\ ev[i + 1] = "sleep"
                         ELSE i = Len(ev))
    /\ [][(loc["storagemgt"] = "loop" /\ loc'["storagemgt"] = "reconnect")
              => retry_count' = 0 /\ conn_events' = <<>>]_vars

\* A reconnect cycle, after a row was written, in which every attempt
\* failed: three attempts, two delays.
C32_Witness ==
    /\ loc["storagemgt"] = "reconnect"
    /\ Len(db_rows) > 0
    /\ conn_events = <<"fail", "sleep", "fail", "sleep", "fail">>

\* C33: with terminate_flag set, interruptible_sleep starts no further
\* nanosleep (the one under way is the last); from the back-off Storage
\* reaches its cleanup and exit, and until then it calls neither db_connect
\* nor the insert.
C33_BackoffEnds ==
    /\ [][(terminate_flag
             /\ loc["storagemgt"] \in {"connect_sleep", "reconnect_sleep"})
              => loc'["storagemgt"] \notin {"connect_nanosleep",
                                           "reconnect_nanosleep"}]_vars
    /\ [][(terminate_flag /\ loc["storagemgt"] \in InCycle
             /\ retry_count < DB_CONNECT_RETRY_ATTEMPTS)
              => /\ conn_events' = conn_events
                 /\ db_rows' = db_rows
                 /\ loc'["storagemgt"] \in InCycle \cup {"done"}]_vars
    /\ (terminate_flag /\ loc["storagemgt"] \in Backoff)
           ~> loc["storagemgt"] = "done"

\* Storage left from the delay after the first failed reconnect attempt:
\* the cycle ends with the delay and nothing was logged at FATAL level.
C33_Witness ==
    /\ terminate_flag
    /\ loc["storagemgt"] = "done"
    /\ Len(db_rows) > 0
    /\ conn_events = <<"fail", "sleep">>
    /\ ~fatal_logged

(***************************************************************************)
(* main: the order of the shutdown.                                        *)
(***************************************************************************)
\* The shutdown of the gateway after a signal, all four threads running.
ShutdownOrder ==
    << <<"set", "terminate_flag">>,
       <<"stop", "conmgt">>, <<"stop", "cmdif">>, <<"stop", "datamgt">>,
       <<"stop", "storagemgt">>,
       <<"signal_shutdown", "buffer">>,
       <<"join", "cmdif">>, <<"join", "storagemgt">>, <<"join", "datamgt">>,
       <<"join", "conmgt">>,
       <<"free", "room_map">>, <<"free", "buffer">>,
       <<"close", "log">>,
       <<"reap", "sink">> >>

\* C34: after the signal main's events are a prefix of: terminate_flag set,
\* stop of Ingress, admin, Analytics, Storage, sbuffer_signal_shutdown, join
\* of admin, Storage, Analytics, Ingress, room map and buffer freed, write
\* end of the log closed, sink reaped; and on every path, the path of a
\* failed pthread_create too, the buffer is freed and the log is closed
\* only once every created thread has returned and was joined.
C34_ShutdownOrder ==
    /\ terminate_flag
           => /\ Len(main_log) <= Len(ShutdownOrder)
              /\ main_log = SubSeq(ShutdownOrder, 1, Len(main_log))
    /\ (\E i \in 1..Len(main_log) :
            main_log[i] \in {<<"free", "buffer">>, <<"close", "log">>})
           => /\ running = {}
              /\ \A w \in created :
                     \E i \in 1..Len(main_log) :
                         /\ main_log[i] = <<"join", w>>
                         /\ \A j \in 1..i :
                                main_log[j] \notin {<<"free", "buffer">>,
                                                    <<"close", "log">>}

\* main returned after a signal: every event of the order has happened.
C34_Witness ==
    /\ main_pc = "exited"
    /\ terminate_flag
    /\ main_log = ShutdownOrder

(***************************************************************************)
(* The consumers and terminate_flag.                                       *)
(***************************************************************************)
\* C35: once terminate_flag is set no consumer starts another iteration of
\* its main loop: from the head of the loop neither Analytics nor Storage
\* goes on to take a reading (a call of sbuffer_remove, or the head of the
\* retry queue for the insert).
C35_NoReadingAfterTerminate ==
    [][terminate_flag
          => \A c \in Consumers :
                 ~(/\ loc[c] \in {"loop", "take"}
                   /\ loc'[c] \in {"take", "remove", "db_insert"})]_vars

(***************************************************************************)
(* The log process and the byte stream of the FIFO.                        *)
(***************************************************************************)
\* The lines of the log file written for bytes of the FIFO.
NumberedLines ==
    SelectSeq(log_file, LAMBDA l : l.kind \in {"record", "partial"})

NewlinesIn(s) == {i \in 1..Len(s) : s[i].c = "\n"}

\* The position of the k-th newline of s, 0 for k = 0.
NewlineAt(s, k) ==
    IF k = 0 THEN 0
    ELSE CHOOSE i \in NewlinesIn(s) :
             Cardinality({j \in NewlinesIn(s) : j <= i}) = k

\* The k-th newline-terminated record of s, without its newline.
RecordAt(s, k) == SubSeq(s, NewlineAt(s, k - 1) + 1, NewlineAt(s, k) - 1)

\* The bytes of s after its last newline.
Unterminated(s) ==
    SubSeq(s, NewlineAt(s, Cardinality(NewlinesIn(s))) + 1, Len(s))

\* The bytes of the stream that the log process has read.
StreamRead == SubSeq(Stream, 1, Len(Stream) - Len(fifo))

C38_RetryQueueAtMostOne ==
    /\ [](Len(retry_queue) <= 1)
    /\ [][(loc["storagemgt"] = "take" /\ loc'["storagemgt"] = "remove")
              => retry_queue = <<>>]_vars
    /\ [][Len(retry_queue') > Len(retry_queue)
              => /\ retry_queue = <<>>
                 /\ Len(retry_queue) < RETRY_QUEUE_INITIAL_CAPACITY
                 /\ ~processing_retry_item
                 /\ retry_queue' = <<data["storagemgt"]>>
                 /\ \E j \in 1..Len(removed["storagemgt"]) :
                        removed["storagemgt"][j] = data["storagemgt"]]_vars

\* The insert of the reading of the retry queue is tried again while the
\* next reading waits in the shared buffer.
C38_Witness ==
    /\ loc["storagemgt"] = "db_insert"
    /\ processing_retry_item
    /\ Len(retry_queue) = 1
    /\ count > 0

(***************************************************************************)
(* Ingress: the client table and the pass over it.                         *)
(***************************************************************************)
\* How often descriptor fd occurs in the sequence q.
TimesIn(q, fd) == Cardinality({i \in 1..Len(q) : q[i] = fd})

\* C39: the live records are exactly the slots 0..num_clients-1, num_clients
\* is their number and at most MAX_CONNECTIONS, no two share a descriptor;
\* and one pass over the clients calls handle_client_data once for every
\* record that is live with its descriptor in read_fds when the pass begins
\* and for no other, whatever records the pass removes.
C39_TableAndPass ==
    /\ [](/\ \A i \in Slots :
               client_sockets[i].socket_fd # -1 <=> i < num_clients
          /\ num_clients = Cardinality({i \in Slots :
                                          client_sockets[i].socket_fd # -1})
          /\ num_clients <= MAX_CONNECTIONS
          /\ \A i, j \in Slots :
               (i # j /\ client_sockets[i].socket_fd # -1)
                   => client_sockets[i].socket_fd
                          # client_sockets[j].socket_fd)
    /\ [][\A ready \in SUBSET open_fds :
            \A closing \in SUBSET ready :
              ClientPass(ready, closing)
                  => \A fd \in Fds :
                         TimesIn(scan_handled', fd)
                             = IF fd \in ready /\ fd \in LiveFds(client_sockets)
                               THEN 1 ELSE 0]_vars

\* A pass over a full table removed the record of slot 0, which moved the
\* record of the last slot, handled before, into slot 0; the pass handled
\* all three records.
C39_Witness ==
    /\ Len(scan_handled) = MAX_CONNECTIONS
    /\ num_clients = MAX_CONNECTIONS - 1
    /\ scan_handled[1] = client_sockets[0].socket_fd
    /\ scan_handled[MAX_CONNECTIONS] \notin open_fds


(***************************************************************************)
(* The order of the three mutexes.                                         *)
(***************************************************************************)
\* The mutexes thread t holds.
HeldBy(t) == {m \in Locks : lock_holder[m] = t}

\* Thread t is in pthread_mutex_lock for m, or in pthread_cond_wait, which
\* takes the mutex of the buffer again before it returns.
WantsLock(t, m) ==
    /\ lock_plan[t] # <<>>
    /\ \/ Head(lock_plan[t]) = <<"lock", m>>
       \/ Head(lock_plan[t])[1] = "woken" /\ m = "buffer"

\* Thread t is inside sbuffer_insert or sbuffer_remove.
InBufferCall(t) ==
    /\ lock_plan[t] # <<>>
    /\ \/ Head(lock_plan[t])[1] \in {"wait", "woken"}
       \/ Head(lock_plan[t])[2] = "buffer"

\* Ingress waits in sbuffer_insert for room in the full buffer.
IngressWaitsOnFull ==
    /\ lock_plan["conmgt"] # <<>>
    /\ Head(lock_plan["conmgt"]) = <<"woken", "not_full">>
    /\ lock_count = SBUFFER_SIZE

\* A set of threads each of which waits for a mutex another one of the set
\* holds.
WaitCycle(T) ==
    /\ T # {}
    /\ \A t \in T : \E m \in Locks : WantsLock(t, m) /\ lock_holder[m] \in T

\* C40: a thread takes a mutex while it holds another one only in the order
\* conmgt_mutex, then log_mutex, so the order of the three mutexes has no
\* cycle; a thread inside sbuffer_insert or sbuffer_remove holds neither
\* conmgt_mutex nor log_mutex; no set of threads waits for one another's
\* mutexes; and while Ingress waits on the full buffer it holds no mutex a
\* query of the admin thread waits for.
C40_LockOrder ==
    /\ \A t \in LockThreads : \A m \in Locks :
          WantsLock(t, m)
              => HeldBy(t) \subseteq
                    (IF m = "log_mutex" THEN {"conmgt_mutex"} ELSE {})
    /\ \A t \in LockThreads :
          InBufferCall(t) => HeldBy(t) \subseteq {"buffer"}
    /\ \A T \in SUBSET LockThreads : ~WaitCycle(T)
    /\ IngressWaitsOnFull
          => \A m \in Locks :
                WantsLock("cmdif", m) => lock_holder[m] # "conmgt"

\* Ingress waits on the full buffer while the admin thread holds conmgt_mutex
\* for a query, and a consumer logs under log_mutex.
C40_Witness ==
    /\ IngressWaitsOnFull
    /\ lock_holder["conmgt_mutex"] = "cmdif"
    /\ lock_holder["log_mutex"] \in {"datamgt", "storagemgt"}

=============================================================================
